---------------------------- MODULE Spec2Model ----------------------------
(***************************************************************************)
(* A state-machine model of the kinect.rs binding: the Device, Capture,    *)
(* Image and Transformation wrappers over the native k4a handles, the      *)
(* translation of native status codes into typed results, and the          *)
(* ImageFormat encoding.                                                   *)
(*                                                                         *)
(* The wrappers are modelled from src/src/device.rs, capture.rs, image.rs, *)
(* transformation.rs and image_format.rs; src/src/lib.rs is an earlier     *)
(* revision of the same types, and the operations in which it differs are  *)
(* modelled next to the current ones under a Lib_ prefix.                  *)
(*                                                                         *)
(* The native layer (libk4a) is the environment: each native call is       *)
(* modelled at its call site by the contract the wrappers rely on          *)
(* (reference counts, status codes), with the status the native layer      *)
(* returns left nondeterministic.                                          *)
(***************************************************************************)
EXTENDS Integers, Sequences, FiniteSets, TLC

(***************************************************************************)
(* Bounds of the model.                                                    *)
(***************************************************************************)
MaxCaptures == 2
MaxImages == 2
MaxCapWrappers == 3
MaxImgWrappers == 2
MaxDevices == 2
MaxDevWrappers == 2
MaxStatus == 3
MaxTransformations == 2
MaxTrWrappers == 2
MaxDim == 1
MaxCode == 10
MaxThreads == 2
MaxThreadWrappers == 2
MaxSerialLength == 3

(***************************************************************************)
(* Native constants (k4a-sys), named as the source names them.             *)
(***************************************************************************)
\* ptr::null_mut()
NULL == 0
K4A_RESULT_SUCCEEDED == 0
K4A_RESULT_FAILED == 1
K4A_BUFFER_RESULT_SUCCEEDED == 0
K4A_BUFFER_RESULT_TOO_SMALL == 2
K4A_WAIT_RESULT_SUCCEEDED == 0
K4A_WAIT_RESULT_FAILED == 1
K4A_WAIT_RESULT_TIMEOUT == 2
I32Max == 2147483647

CapHandles == 1..MaxCaptures
ImgHandles == 1..MaxImages
DevHandles == 1..MaxDevices
CapWrappers == 1..MaxCapWrappers
ImgWrappers == 1..MaxImgWrappers
DevWrappers == 1..MaxDevWrappers
TrHandles == 1..MaxTransformations
TrWrappers == 1..MaxTrWrappers
\* The status values the native layer may return from any call.
Statuses == 0..MaxStatus
ImageSlots == {"depth", "color", "ir"}

\* `result as i32` of a native status (u32 on Linux, i32 on Windows).
AsI32(x) == IF x > I32Max THEN x - I32Max - I32Max - 2 ELSE x

VARIABLES
  \* native layer: captures
  capRef,       \* reference count of each capture handle
  capFreed,     \* how many times the native capture object was destroyed
  capIssued,    \* capture handles the native layer has handed out
  capImg,       \* the image handle (or NULL) in each slot of each capture
  \* native layer: images
  imgRef, imgFreed, imgIssued,
  \* native layer: devices
  devState,     \* "unopened", "open" or "closed" for each device handle
  devStreaming, \* cameras started on the handle
  devCloseCalls,\* number of k4a_device_close calls issued for the handle
  \* wrappers (Rust values): a slot is a binding that may hold a live wrapper
  captures, images, devices,
  \* the value returned by the last wrapper operation
  ret,
  \* native layer and wrappers: transformations
  trIssued,       \* transformation handles k4a_transformation_create returned
  trDestroyCalls, \* number of k4a_transformation_destroy calls per handle
  transformations,
  \* ImageFormat conversions: the inputs and what each conversion returned
  fmtIn, codeIn, fmtEnc, fmtBack, fmtDec,
  \* Captures owned by threads: the wrappers, and where each thread stands
  \* inside a clone, a drop or a clone_from
  thCaptures, thPc,
  \* The thread inside Device::get_capture: idle, blocked in the native wait,
  \* or woken with the status the native call is about to return
  getPc,
  \* Device::get_serial_number: the native calls the last call made, in order,
  \* and the bytes of the String it returned
  snCalls, snValue,
  \* Device::get_calibration: the arguments of the last call, what became of
  \* calibration_buffer, and the Calibration returned
  calCall, calReturned,
  \* DeviceConfiguration: the value the caller holds, the constructor it came
  \* from, and the configuration last handed to k4a_device_start_cameras
  devConfig, configFrom, startCall,
  \* Device::get_capture_buffered: the k4a_capture_t the caller passes by
  \* &mut and reuses from call to call
  captureBuffer

devNative == <<devState, devStreaming, devCloseCalls>>
nativeVars == <<capRef, capFreed, capIssued, capImg, imgRef, imgFreed, imgIssued,
                devNative>>
wrapperVars == <<captures, images, devices>>
trVars == <<trIssued, trDestroyCalls, transformations>>
fmtVars == <<fmtIn, codeIn, fmtEnc, fmtBack, fmtDec>>
thVars == <<thCaptures, thPc>>
stopVars == <<getPc>>
serialVars == <<snCalls, snValue>>
calVars == <<calCall, calReturned>>
configVars == <<devConfig, configFrom, startCall>>
bufVars == <<captureBuffer>>
moreVars == <<serialVars, calVars, configVars, bufVars>>
auxVars == <<trVars, fmtVars, thVars, stopVars, moreVars>>
vars == <<nativeVars, wrapperVars, ret, auxVars>>

\* A wrapper slot: live is FALSE before construction and after drop.
NoWrapper == [live |-> FALSE, handle |-> NULL]
Wrapper(h) == [live |-> TRUE, handle |-> h]

\* A new wrapper is bound to the first slot that holds no live wrapper: the
\* slots are names of bindings, and which free name is taken changes nothing.
FreeSlot(ws) ==
  {w \in DOMAIN ws : ~ws[w].live /\ \A v \in DOMAIN ws : v < w => ws[v].live}

\* What the last wrapper operation did: the status its native call returned and
\* the handle the native call wrote or returned (status, wrote), the argument
\* it passed on (arg), and the value the operation returned to its caller: the
\* variant (kind), the code an error carries and the handle a wrapper holds.
\* native is the sequence of native calls the operation issued, in order,
\* and value the plain value (not a wrapper) inside an Ok, if any.
Call(op, arg, status, wrote, kind, code, h) ==
  [op |-> op, arg |-> arg, status |-> status, wrote |-> wrote,
   kind |-> kind, code |-> code, handle |-> h, native |-> <<>>, value |-> <<>>]
Ret(op, kind, code, h) == Call(op, 0, 0, NULL, kind, code, h)
NoRet == Ret("none", "none", 0, NULL)

\* One native call: the k4a function and the handle (or value) it was given.
NativeCall(fn, arg) == <<fn, arg>>
\* The value call of an operation that issued the native calls.
Issued(call, calls) == [call EXCEPT !.native = calls]


(***************************************************************************)
(* The native reference counts.  A record n holds the counts of captures   *)
(* and images; every native call yields the set of states it may leave.    *)
(* A call on a handle whose object was already destroyed is undefined      *)
(* behaviour at the native layer: it may leave the counts alone or act on  *)
(* the freed object again.                                                 *)
(***************************************************************************)
Native == [capRef |-> capRef, capFreed |-> capFreed,
           imgRef |-> imgRef, imgFreed |-> imgFreed]

SetNative(n) ==
  /\ capRef' = n.capRef
  /\ capFreed' = n.capFreed
  /\ imgRef' = n.imgRef
  /\ imgFreed' = n.imgFreed

\* A second destruction of the same object is counted; further ones are not.
Again(freed, h) == IF freed[h] < 2 THEN [freed EXCEPT ![h] = @ + 1] ELSE freed

\* k4a_image_reference(h)
k4a_image_reference(n, h) ==
  IF h = NULL THEN {n}
  ELSE IF n.imgRef[h] > 0
    THEN {[n EXCEPT !.imgRef[h] = @ + 1]}
    ELSE {n, [n EXCEPT !.imgRef[h] = 1]}

\* k4a_image_release(h): the image is destroyed when its count reaches zero.
k4a_image_release(n, h) ==
  IF h = NULL THEN {n}
  ELSE IF n.imgRef[h] > 1
    THEN {[n EXCEPT !.imgRef[h] = @ - 1]}
    ELSE IF n.imgRef[h] = 1
      THEN {[n EXCEPT !.imgRef[h] = 0, !.imgFreed = Again(n.imgFreed, h)]}
      ELSE {n, [n EXCEPT !.imgFreed = Again(n.imgFreed, h)]}

\* The capture's own references on its images are released with the capture.
RECURSIVE ReleaseImages(_, _)
ReleaseImages(S, hs) ==
  IF hs = {} THEN S
  ELSE LET h == CHOOSE x \in hs : TRUE
       IN  ReleaseImages(UNION {k4a_image_release(n, h) : n \in S}, hs \ {h})

ImagesOf(c) == {capImg[c][s] : s \in ImageSlots} \ {NULL}
\* A call on the null handle is rejected by the native layer and changes nothing.

\* k4a_capture_reference(h)
k4a_capture_reference(n, h) ==
  IF h = NULL THEN {n}
  ELSE IF n.capRef[h] > 0
    THEN {[n EXCEPT !.capRef[h] = @ + 1]}
    ELSE {n, [n EXCEPT !.capRef[h] = 1]}

\* k4a_capture_release(h): "When the refcount drops to zero, the capture goes away."
k4a_capture_release(n, h) ==
  IF h = NULL THEN {n}
  ELSE IF n.capRef[h] > 1
    THEN {[n EXCEPT !.capRef[h] = @ - 1]}
    ELSE IF n.capRef[h] = 1
      THEN ReleaseImages({[n EXCEPT !.capRef[h] = 0, !.capFreed = Again(n.capFreed, h)]},
                         ImagesOf(h))
      ELSE {n, [n EXCEPT !.capFreed = Again(n.capFreed, h)]}

(***************************************************************************)
(* Capture (capture.rs).                                                   *)
(***************************************************************************)
\* Capture::get_handle: the raw handle, no reference taken.
Capture_get_handle(w) == captures[w].handle

\* impl Drop for Capture: k4a_capture_release(self.0); self.0 = null_mut().
Capture_drop(w) ==
  /\ captures[w].live
  /\ \E n \in k4a_capture_release(Native, captures[w].handle) : SetNative(n)
  /\ captures' = [captures EXCEPT ![w] = NoWrapper]
  /\ ret' = Issued(Ret("Capture::drop", "unit", 0, NULL),
                    <<NativeCall("k4a_capture_release", captures[w].handle)>>)
  /\ UNCHANGED <<capIssued, capImg, imgIssued, devNative, images, devices, auxVars>>

\* Capture::clone: reference the handle, build a second wrapper of it.
Capture_clone(src, dst) ==
  /\ captures[src].live
  /\ ~captures[dst].live
  /\ LET handle == Capture_get_handle(src)
     IN  /\ \E n \in k4a_capture_reference(Native, handle) : SetNative(n)
         /\ captures' = [captures EXCEPT ![dst] = Wrapper(handle)]
         /\ ret' = Issued(Ret("Capture::clone", "wrapper", 0, handle),
                           <<NativeCall("k4a_capture_reference", handle)>>)
  /\ UNCHANGED <<capIssued, capImg, imgIssued, devNative, images, devices, auxVars>>

\* Capture::clone_from without the reference on the source's handle.
Capture_clone_from_noref(self, source) ==
  /\ self # source
  /\ captures[self].live
  /\ captures[source].live
  /\ \E n \in k4a_capture_release(Native, captures[self].handle) : SetNative(n)
  /\ captures' = [captures EXCEPT ![self] = Wrapper(captures[source].handle)]
  /\ ret' = Ret("Capture::clone_from", "unit", 0, captures[source].handle)
  /\ UNCHANGED <<capIssued, capImg, imgIssued, devNative, images, devices, auxVars>>

\* A clone_from that releases self's handle before it references the source's.
Capture_clone_from_release_first(self, source) ==
  /\ self # source
  /\ captures[self].live
  /\ captures[source].live
  /\ LET handle == Capture_get_handle(source)
     IN  /\ \E n1 \in k4a_capture_release(Native, captures[self].handle) :
              \E n2 \in k4a_capture_reference(n1, handle) :
                 SetNative(n2)
         /\ captures' = [captures EXCEPT ![self] = Wrapper(handle)]
         /\ ret' = Issued(Ret("Capture::clone_from", "unit", 0, handle),
                           <<NativeCall("k4a_capture_release", captures[self].handle),
                             NativeCall("k4a_capture_reference", handle)>>)
  /\ UNCHANGED <<capIssued, capImg, imgIssued, devNative, images, devices, auxVars>>

\* Capture::clone_from: reference the source's handle, release self's, store.
Capture_clone_from(self, source) ==
  /\ self # source
  /\ captures[self].live
  /\ captures[source].live
  /\ LET handle == Capture_get_handle(source)
     IN  /\ \E n1 \in k4a_capture_reference(Native, handle) :
              \E n2 \in k4a_capture_release(n1, captures[self].handle) :
                 SetNative(n2)
         /\ captures' = [captures EXCEPT ![self] = Wrapper(handle)]
         /\ ret' = Issued(Ret("Capture::clone_from", "unit", 0, handle),
                           <<NativeCall("k4a_capture_reference", handle),
                             NativeCall("k4a_capture_release", captures[self].handle)>>)
  /\ UNCHANGED <<capIssued, capImg, imgIssued, devNative, images, devices, auxVars>>

\* The accessor that reads each slot.
SlotOp(slot) ==
  CASE slot = "depth" -> "get_depth_image"
    [] slot = "color" -> "get_color_image"
    [] slot = "ir" -> "get_ir_image"

LibSlotOp(slot) ==
  CASE slot = "depth" -> "lib::get_depth_image"
    [] slot = "color" -> "lib::get_color_image"
    [] slot = "ir" -> "lib::get_ir_image"

\* The native query each accessor issues.
NativeSlotFn(slot) ==
  CASE slot = "depth" -> "k4a_capture_get_depth_image"
    [] slot = "color" -> "k4a_capture_get_color_image"
    [] slot = "ir" -> "k4a_capture_get_ir_image"

\* k4a_capture_get_{depth,color,ir}_image: NULL for an empty slot, else the
\* slot's image with a reference taken for the caller.
k4a_capture_get_image(n, c, slot) ==
  IF c = NULL \/ capImg[c][slot] = NULL
    THEN {[image |-> NULL, n |-> n]}
    ELSE {[image |-> capImg[c][slot], n |-> m] :
            m \in k4a_image_reference(n, capImg[c][slot])}

\* The accessors with the native queries of depth and color exchanged.
Capture_get_image_swapped(w, slot, iw) ==
  /\ captures[w].live
  /\ ~images[iw].live
  /\ LET read == CASE slot = "depth" -> "color"
                   [] slot = "color" -> "depth"
                   [] OTHER -> slot
     IN  \E r \in k4a_capture_get_image(Native, captures[w].handle, read) :
           /\ SetNative(r.n)
           /\ IF r.image = NULL
                THEN /\ images' = images
                     /\ ret' = Call(SlotOp(slot), captures[w].handle, 0, r.image, "None", 0, NULL)
                ELSE /\ images' = [images EXCEPT ![iw] = Wrapper(r.image)]
                     /\ ret' = Call(SlotOp(slot), captures[w].handle, 0, r.image, "Some", 0, r.image)
  /\ UNCHANGED <<capIssued, capImg, imgIssued, devNative, captures, devices, auxVars>>

\* Accessors that hand out the capture's own reference on the image.
Capture_get_image_borrowed(w, slot, iw) ==
  /\ captures[w].live
  /\ ~images[iw].live
  /\ LET image == capImg[captures[w].handle][slot]
     IN  IF image = NULL
           THEN /\ images' = images
                /\ ret' = Issued(Call(SlotOp(slot), captures[w].handle, 0, image,
                                       "None", 0, NULL),
                                  <<NativeCall(NativeSlotFn(slot), captures[w].handle)>>)
           ELSE /\ images' = [images EXCEPT ![iw] = Wrapper(image)]
                /\ ret' = Issued(Call(SlotOp(slot), captures[w].handle, 0, image,
                                       "Some", 0, image),
                                  <<NativeCall(NativeSlotFn(slot), captures[w].handle)>>)
  /\ UNCHANGED <<capRef, capFreed, imgRef, imgFreed, capIssued, capImg, imgIssued,
                 devNative, captures, devices, auxVars>>

\* Capture::get_depth_image / get_color_image / get_ir_image (capture.rs):
\* None for a null image, else Some(Image(image)).
Capture_get_image(w, slot, iw) ==
  /\ captures[w].live
  /\ ~images[iw].live
  /\ \E r \in k4a_capture_get_image(Native, captures[w].handle, slot) :
       /\ SetNative(r.n)
       /\ IF r.image = NULL
            THEN /\ images' = images
                 /\ ret' = Issued(Call(SlotOp(slot), captures[w].handle, 0, r.image,
                                        "None", 0, NULL),
                                   <<NativeCall(NativeSlotFn(slot), captures[w].handle)>>)
            ELSE /\ images' = [images EXCEPT ![iw] = Wrapper(r.image)]
                 /\ ret' = Issued(Call(SlotOp(slot), captures[w].handle, 0, r.image,
                                        "Some", 0, r.image),
                                   <<NativeCall(NativeSlotFn(slot), captures[w].handle)>>)
  /\ UNCHANGED <<capIssued, capImg, imgIssued, devNative, captures, devices, auxVars>>

\* The same accessors in lib.rs: Err(CaptureError::NullCapture) for a null image.
Lib_Capture_get_image(w, slot, iw) ==
  /\ captures[w].live
  /\ ~images[iw].live
  /\ \E r \in k4a_capture_get_image(Native, captures[w].handle, slot) :
       /\ SetNative(r.n)
       /\ IF r.image = NULL
            THEN /\ images' = images
                 /\ ret' = Issued(Call(LibSlotOp(slot), captures[w].handle, 0, r.image,
                                        "Err(NullCapture)", 0, NULL),
                                   <<NativeCall(NativeSlotFn(slot), captures[w].handle)>>)
            ELSE /\ images' = [images EXCEPT ![iw] = Wrapper(r.image)]
                 /\ ret' = Issued(Call(LibSlotOp(slot), captures[w].handle, 0, r.image,
                                        "Ok", 0, r.image),
                                   <<NativeCall(NativeSlotFn(slot), captures[w].handle)>>)
  /\ UNCHANGED <<capIssued, capImg, imgIssued, devNative, captures, devices, auxVars>>

(***************************************************************************)
(* Image (image.rs).                                                       *)
(***************************************************************************)
Image_get_handle(w) == images[w].handle

\* impl Drop for Image: k4a_image_release(self.0).
Image_drop(w) ==
  /\ images[w].live
  /\ \E n \in k4a_image_release(Native, images[w].handle) : SetNative(n)
  /\ images' = [images EXCEPT ![w] = NoWrapper]
  /\ ret' = Issued(Ret("Image::drop", "unit", 0, NULL),
                    <<NativeCall("k4a_image_release", images[w].handle)>>)
  /\ UNCHANGED <<capIssued, capImg, imgIssued, devNative, captures, devices, auxVars>>

\* Image::clone without the reference on the handle.
Image_clone_noref(src, dst) ==
  /\ images[src].live
  /\ ~images[dst].live
  /\ images' = [images EXCEPT ![dst] = Wrapper(images[src].handle)]
  /\ ret' = Ret("Image::clone", "wrapper", 0, images[src].handle)
  /\ UNCHANGED <<capRef, capFreed, imgRef, imgFreed, capIssued, capImg, imgIssued,
                 devNative, captures, devices, auxVars>>

\* Image::clone
Image_clone(src, dst) ==
  /\ images[src].live
  /\ ~images[dst].live
  /\ LET handle == Image_get_handle(src)
     IN  /\ \E n \in k4a_image_reference(Native, handle) : SetNative(n)
         /\ images' = [images EXCEPT ![dst] = Wrapper(handle)]
         /\ ret' = Issued(Ret("Image::clone", "wrapper", 0, handle),
                           <<NativeCall("k4a_image_reference", handle)>>)
  /\ UNCHANGED <<capIssued, capImg, imgIssued, devNative, captures, devices, auxVars>>

\* Image::clone_from
Image_clone_from(self, source) ==
  /\ self # source
  /\ images[self].live
  /\ images[source].live
  /\ LET handle == Image_get_handle(source)
     IN  /\ \E n1 \in k4a_image_reference(Native, handle) :
              \E n2 \in k4a_image_release(n1, images[self].handle) :
                 SetNative(n2)
         /\ images' = [images EXCEPT ![self] = Wrapper(handle)]
         /\ ret' = Issued(Ret("Image::clone_from", "unit", 0, handle),
                           <<NativeCall("k4a_image_reference", handle),
                             NativeCall("k4a_image_release", images[self].handle)>>)
  /\ UNCHANGED <<capIssued, capImg, imgIssued, devNative, captures, devices, auxVars>>

(***************************************************************************)
(* The raw handles in the hands of a caller (capture.rs, image.rs).        *)
(***************************************************************************)
\* let handle = capture.get_handle();
Call_Capture_get_handle(w) ==
  /\ captures[w].live
  /\ ret' = Ret("Capture::get_handle", "handle", 0, Capture_get_handle(w))
  /\ UNCHANGED <<nativeVars, wrapperVars, auxVars>>

\* let handle = image.get_handle();
Call_Image_get_handle(w) ==
  /\ images[w].live
  /\ ret' = Ret("Image::get_handle", "handle", 0, Image_get_handle(w))
  /\ UNCHANGED <<nativeVars, wrapperVars, auxVars>>

\* Capture(handle): pub struct Capture(pub k4a_capture_t) lets any caller wrap
\* the handle get_handle returned; no reference is taken.
Capture_from_raw(dst) ==
  /\ ret.op = "Capture::get_handle"
  /\ ~captures[dst].live
  /\ captures' = [captures EXCEPT ![dst] = Wrapper(ret.handle)]
  /\ ret' = Ret("Capture", "wrapper", 0, ret.handle)
  /\ UNCHANGED <<nativeVars, images, devices, auxVars>>

\* Image(handle): pub struct Image(pub k4a_image_t), likewise.
Image_from_raw(dst) ==
  /\ ret.op = "Image::get_handle"
  /\ ~images[dst].live
  /\ images' = [images EXCEPT ![dst] = Wrapper(ret.handle)]
  /\ ret' = Ret("Image", "wrapper", 0, ret.handle)
  /\ UNCHANGED <<nativeVars, captures, devices, auxVars>>

(***************************************************************************)
(* ImageFormat (image_format.rs).                                          *)
(***************************************************************************)
\* An encoding in which Custom16 repeats the code of Custom8.
to_k4a_repeated_code(f) ==
  CASE f = "ColorMjpg" -> 0
    [] f = "ColorNv12" -> 1
    [] f = "ColorYuy2" -> 2
    [] f = "ColorBgra32" -> 3
    [] f = "Depth16" -> 4
    [] f = "Ir16" -> 5
    [] f = "Custom8" -> 6
    [] f = "Custom16" -> 6
    [] f = "Custom" -> 8
    [] f = "UnknownFormatError" -> 255

ImageFormats == {"ColorMjpg", "ColorNv12", "ColorYuy2", "ColorBgra32", "Depth16",
                 "Ir16", "Custom8", "Custom16", "Custom", "UnknownFormatError"}

\* ImageFormat::to_k4a
to_k4a(f) ==
  CASE f = "ColorMjpg" -> 0
    [] f = "ColorNv12" -> 1
    [] f = "ColorYuy2" -> 2
    [] f = "ColorBgra32" -> 3
    [] f = "Depth16" -> 4
    [] f = "Ir16" -> 5
    [] f = "Custom8" -> 6
    [] f = "Custom16" -> 7
    [] f = "Custom" -> 8
    [] f = "UnknownFormatError" -> 255

\* A decoding in which the arm of 7 repeats the result of the arm of 6.
from_k4a_repeated_arm(format) ==
  CASE format = 0 -> "ColorMjpg"
    [] format = 1 -> "ColorNv12"
    [] format = 2 -> "ColorYuy2"
    [] format = 3 -> "ColorBgra32"
    [] format = 4 -> "Depth16"
    [] format = 5 -> "Ir16"
    [] format = 6 -> "Custom8"
    [] format = 7 -> "Custom8"
    [] format = 8 -> "Custom"
    [] OTHER -> "UnknownFormatError"

\* impl From<k4a_image_format_t> for ImageFormat
from_k4a(format) ==
  CASE format = 0 -> "ColorMjpg"
    [] format = 1 -> "ColorNv12"
    [] format = 2 -> "ColorYuy2"
    [] format = 3 -> "ColorBgra32"
    [] format = 4 -> "Depth16"
    [] format = 5 -> "Ir16"
    [] format = 6 -> "Custom8"
    [] format = 7 -> "Custom16"
    [] format = 8 -> "Custom"
    [] OTHER -> "UnknownFormatError"

\* `format as k4a_image_format_t`: the position of the variant in the enum.
Discriminant(f) ==
  CASE f = "ColorMjpg" -> 0
    [] f = "ColorNv12" -> 1
    [] f = "ColorYuy2" -> 2
    [] f = "ColorBgra32" -> 3
    [] f = "Depth16" -> 4
    [] f = "Ir16" -> 5
    [] f = "Custom8" -> 6
    [] f = "Custom16" -> 7
    [] f = "Custom" -> 8
    [] f = "UnknownFormatError" -> 9

\* The integers a k4a_image_format_t may hold that the conversions are tried
\* on: an i32 on Windows, so also a negative one, and 255.
Codes == (-1..MaxCode) \cup {255}
\* A result not computed yet; a computed result r is held as <<r>>.
Unset == <<>>

\* let code = format.to_k4a();
Fmt_to_k4a ==
  /\ fmtEnc = Unset
  /\ fmtEnc' = <<to_k4a(fmtIn)>>
  /\ UNCHANGED <<nativeVars, wrapperVars, ret, trVars, thVars, stopVars, fmtIn, codeIn, fmtBack, fmtDec, moreVars>>

\* let back: ImageFormat = code.into();
Fmt_from_encoded ==
  /\ fmtEnc # Unset
  /\ fmtBack = Unset
  /\ fmtBack' = <<from_k4a(fmtEnc[1])>>
  /\ UNCHANGED <<nativeVars, wrapperVars, ret, trVars, thVars, stopVars, fmtIn, codeIn, fmtEnc, fmtDec, moreVars>>

\* let decoded: ImageFormat = format.into();  (as in Image::get_format)
Fmt_from_code ==
  /\ fmtDec = Unset
  /\ fmtDec' = <<from_k4a(codeIn)>>
  /\ UNCHANGED <<nativeVars, wrapperVars, ret, trVars, thVars, stopVars, fmtIn, codeIn, fmtEnc, fmtBack, moreVars>>

\* The smallest handle of S the native layer has not handed out yet.
Fresh(S, issued) == CHOOSE h \in S \ issued : \A g \in S \ issued : h <= g

\* An Image::create that wraps the handle whatever the result is.
Image_create_unchecked(iw, format, result) ==
  /\ ~images[iw].live
  /\ result = K4A_RESULT_SUCCEEDED => ImgHandles \ imgIssued # {}
  /\ LET handle == IF result = K4A_RESULT_SUCCEEDED
                     THEN Fresh(ImgHandles, imgIssued) ELSE NULL
     IN  /\ imgRef' = IF handle = NULL THEN imgRef ELSE [imgRef EXCEPT ![handle] = 1]
         /\ imgIssued' = imgIssued \cup ({handle} \ {NULL})
         /\ images' = [images EXCEPT ![iw] = Wrapper(handle)]
         /\ ret' = Call("Image::create", Discriminant(format), result, handle,
                        "Ok", 0, handle)
  /\ UNCHANGED <<capRef, capFreed, imgFreed, capIssued, capImg, devNative,
                 captures, devices, auxVars>>

\* Image::create: k4a_image_create writes a new handle with a reference count
\* of 1; a non-success result is returned as CreateImageError.
Image_create(iw, format, result) ==
  /\ ~images[iw].live
  /\ result = K4A_RESULT_SUCCEEDED => ImgHandles \ imgIssued # {}
  /\ LET handle == IF result = K4A_RESULT_SUCCEEDED
                     THEN Fresh(ImgHandles, imgIssued) ELSE NULL
     IN  IF result # K4A_RESULT_SUCCEEDED
           THEN /\ ret' = Issued(Call("Image::create", Discriminant(format), result,
                                      handle, "CreateImageError", AsI32(result), NULL),
                                 <<NativeCall("k4a_image_create", Discriminant(format))>>)
                /\ UNCHANGED <<imgRef, imgIssued, images>>
           ELSE /\ imgRef' = [imgRef EXCEPT ![handle] = 1]
                /\ imgIssued' = imgIssued \cup {handle}
                /\ images' = [images EXCEPT ![iw] = Wrapper(handle)]
                /\ ret' = Issued(Call("Image::create", Discriminant(format), result,
                                      handle, "Ok", 0, handle),
                                 <<NativeCall("k4a_image_create", Discriminant(format))>>)
  /\ UNCHANGED <<capRef, capFreed, imgFreed, capIssued, capImg, devNative,
                 captures, devices, auxVars>>

(***************************************************************************)
(* DeviceConfiguration (device_configuration.rs).  The constants are those *)
(* of k4a-sys the presets name.                                            *)
(***************************************************************************)
K4A_IMAGE_FORMAT_COLOR_MJPG == 0
K4A_IMAGE_FORMAT_COLOR_BGRA32 == 3
K4A_COLOR_RESOLUTION_OFF == 0
K4A_COLOR_RESOLUTION_720P == 1
K4A_COLOR_RESOLUTION_2160P == 5
K4A_DEPTH_MODE_OFF == 0
K4A_DEPTH_MODE_NFOV_UNBINNED == 2
K4A_DEPTH_MODE_WFOV_2X2BINNED == 3
K4A_FRAMES_PER_SECOND_30 == 2
K4A_WIRED_SYNC_MODE_STANDALONE == 0

\* A DeviceConfiguration::new() whose frame rate is 30 fps.
DeviceConfiguration_new_fps30 ==
  [color_format |-> K4A_IMAGE_FORMAT_COLOR_MJPG,
   color_resolution |-> K4A_COLOR_RESOLUTION_720P,
   depth_mode |-> K4A_DEPTH_MODE_WFOV_2X2BINNED,
   camera_fps |-> K4A_FRAMES_PER_SECOND_30,
   synchronized_images_only |-> FALSE,
   depth_delay_off_color_usec |-> 0,
   wired_sync_mode |-> 0,
   subordinate_delay_off_master_usec |-> 0,
   disable_streaming_indicator |-> FALSE]

\* DeviceConfiguration::new()
DeviceConfiguration_new ==
  [color_format |-> K4A_IMAGE_FORMAT_COLOR_MJPG,
   color_resolution |-> K4A_COLOR_RESOLUTION_720P,
   depth_mode |-> K4A_DEPTH_MODE_WFOV_2X2BINNED,
   camera_fps |-> 0,
   synchronized_images_only |-> FALSE,
   depth_delay_off_color_usec |-> 0,
   wired_sync_mode |-> 0,
   subordinate_delay_off_master_usec |-> 0,
   disable_streaming_indicator |-> FALSE]

\* DeviceConfiguration::init_disable_all()
DeviceConfiguration_init_disable_all ==
  [color_format |-> K4A_IMAGE_FORMAT_COLOR_MJPG,
   color_resolution |-> K4A_COLOR_RESOLUTION_OFF,
   depth_mode |-> K4A_DEPTH_MODE_OFF,
   camera_fps |-> K4A_FRAMES_PER_SECOND_30,
   synchronized_images_only |-> FALSE,
   depth_delay_off_color_usec |-> 0,
   wired_sync_mode |-> K4A_WIRED_SYNC_MODE_STANDALONE,
   subordinate_delay_off_master_usec |-> 0,
   disable_streaming_indicator |-> FALSE]

\* let device_config = DeviceConfiguration::new();
Config_new ==
  /\ devConfig' = DeviceConfiguration_new
  /\ configFrom' = "new"
  /\ ret' = Ret("DeviceConfiguration::new", "value", 0, NULL)
  /\ UNCHANGED <<nativeVars, wrapperVars, trVars, fmtVars, thVars, stopVars,
                 serialVars, calVars, startCall, bufVars>>

\* let device_config = DeviceConfiguration::init_disable_all();
Config_init_disable_all ==
  /\ devConfig' = DeviceConfiguration_init_disable_all
  /\ configFrom' = "init_disable_all"
  /\ ret' = Ret("DeviceConfiguration::init_disable_all", "value", 0, NULL)
  /\ UNCHANGED <<nativeVars, wrapperVars, trVars, fmtVars, thVars, stopVars,
                 serialVars, calVars, startCall, bufVars>>

\* The values a caller writes into the public fields of the configuration.
ConfigFieldValues ==
  [color_format |-> {K4A_IMAGE_FORMAT_COLOR_MJPG, K4A_IMAGE_FORMAT_COLOR_BGRA32},
   color_resolution |-> {K4A_COLOR_RESOLUTION_OFF, K4A_COLOR_RESOLUTION_2160P},
   depth_mode |-> {K4A_DEPTH_MODE_OFF, K4A_DEPTH_MODE_NFOV_UNBINNED},
   camera_fps |-> {0, K4A_FRAMES_PER_SECOND_30}]

\* device_config.0.field = value;
Config_set(field, value) ==
  /\ devConfig[field] # value
  /\ devConfig' = [devConfig EXCEPT ![field] = value]
  /\ configFrom' = "caller"
  /\ ret' = Ret("DeviceConfiguration::set", "unit", 0, NULL)
  /\ UNCHANGED <<nativeVars, wrapperVars, trVars, fmtVars, thVars, stopVars,
                 serialVars, calVars, startCall, bufVars>>

(***************************************************************************)
(* Device (device.rs).                                                     *)
(***************************************************************************)
DeviceIndexes == 0..(MaxDevices - 1)
\* timeout_ms: wait for ever (K4A_WAIT_INFINITE), poll, or wait a while.
Timeouts == {-1, 0, 1}

\* A drop of Device that does not close the handle.
Device_drop_noclose(w) ==
  /\ devices[w].live
  /\ devices' = [devices EXCEPT ![w] = NoWrapper]
  /\ ret' = Ret("Device::drop", "unit", 0, NULL)
  /\ UNCHANGED <<capRef, capFreed, capIssued, capImg, imgRef, imgFreed, imgIssued,
                 devNative, captures, images, auxVars>>

\* impl Drop for Device: k4a_device_close(self.device_pointer).
Device_drop(w) ==
  /\ devices[w].live
  /\ LET h == devices[w].handle
     IN  IF h = NULL
           THEN UNCHANGED devNative
           ELSE /\ devCloseCalls' = Again(devCloseCalls, h)
                /\ devState' = [devState EXCEPT ![h] = "closed"]
                /\ devStreaming' = [devStreaming EXCEPT ![h] = FALSE]
  /\ devices' = [devices EXCEPT ![w] = NoWrapper]
  /\ ret' = Issued(Ret("Device::drop", "unit", 0, NULL),
                    <<NativeCall("k4a_device_close", devices[w].handle)>>)
  /\ UNCHANGED <<capRef, capFreed, capIssued, capImg, imgRef, imgFreed, imgIssued,
                 captures, images, auxVars>>

\* Device::open without the check of the native status.
Device_open_unchecked(w, device_index, result) ==
  /\ ~devices[w].live
  /\ result = K4A_RESULT_SUCCEEDED => \E h \in DevHandles : devState[h] = "unopened"
  /\ LET device_pointer ==
           IF result = K4A_RESULT_SUCCEEDED
             THEN Fresh(DevHandles, {h \in DevHandles : devState[h] # "unopened"})
             ELSE NULL
     IN  /\ devState' = IF device_pointer = NULL THEN devState
                        ELSE [devState EXCEPT ![device_pointer] = "open"]
         /\ devices' = [devices EXCEPT ![w] = Wrapper(device_pointer)]
         /\ ret' = Call("Device::open", device_index, result, device_pointer,
                        "Ok", 0, device_pointer)
  /\ UNCHANGED <<capRef, capFreed, capIssued, capImg, imgRef, imgFreed, imgIssued,
                 devStreaming, devCloseCalls, captures, images, auxVars>>

\* A Device::open that asks the native layer again after a failure.
Device_open_retrying(w, device_index, result) ==
  /\ ~devices[w].live
  /\ result = K4A_RESULT_SUCCEEDED => \E h \in DevHandles : devState[h] = "unopened"
  /\ LET device_pointer ==
           IF result = K4A_RESULT_SUCCEEDED
             THEN Fresh(DevHandles, {h \in DevHandles : devState[h] # "unopened"})
             ELSE NULL
     IN  IF result # K4A_BUFFER_RESULT_SUCCEEDED
           THEN /\ ret' = Issued(Call("Device::open", device_index, result,
                                      device_pointer, "DeviceOpenError", AsI32(result),
                                      NULL),
                                 <<NativeCall("k4a_device_open", device_index),
                                   NativeCall("k4a_device_open", device_index)>>)
                /\ UNCHANGED <<devState, devices>>
           ELSE /\ devState' = [devState EXCEPT ![device_pointer] = "open"]
                /\ devices' = [devices EXCEPT ![w] = Wrapper(device_pointer)]
                /\ ret' = Issued(Call("Device::open", device_index, result,
                                      device_pointer, "Ok", 0, device_pointer),
                                 <<NativeCall("k4a_device_open", device_index)>>)
  /\ UNCHANGED <<capRef, capFreed, capIssued, capImg, imgRef, imgFreed, imgIssued,
                 devStreaming, devCloseCalls, captures, images, auxVars>>

\* Device::open: k4a_device_open writes the handle of the opened device on
\* success; any other status returns DeviceOpenError before a Device is built.
Device_open(w, device_index, result) ==
  /\ ~devices[w].live
  /\ result = K4A_RESULT_SUCCEEDED => \E h \in DevHandles : devState[h] = "unopened"
  /\ LET device_pointer ==
           IF result = K4A_RESULT_SUCCEEDED
             THEN Fresh(DevHandles, {h \in DevHandles : devState[h] # "unopened"})
             ELSE NULL
     IN  IF result # K4A_BUFFER_RESULT_SUCCEEDED
           THEN /\ ret' = Issued(Call("Device::open", device_index, result,
                                      device_pointer, "DeviceOpenError", AsI32(result),
                                      NULL),
                                 <<NativeCall("k4a_device_open", device_index)>>)
                /\ UNCHANGED <<devState, devices>>
           ELSE /\ devState' = [devState EXCEPT ![device_pointer] = "open"]
                /\ devices' = [devices EXCEPT ![w] = Wrapper(device_pointer)]
                /\ ret' = Issued(Call("Device::open", device_index, result,
                                      device_pointer, "Ok", 0, device_pointer),
                                 <<NativeCall("k4a_device_open", device_index)>>)
  /\ UNCHANGED <<capRef, capFreed, capIssued, capImg, imgRef, imgFreed, imgIssued,
                 devStreaming, devCloseCalls, captures, images, auxVars>>

\* The body of Device::start_cameras, for the operation op that runs it:
\* k4a_device_start_cameras(self.device_pointer, &device_config.0); on success
\* the native layer starts producing captures.
StartCameras(op, w, device_config, result) ==
  /\ devices[w].live
  /\ startCall' = <<device_config>>
  /\ IF result # K4A_BUFFER_RESULT_SUCCEEDED
       THEN /\ ret' = Issued(Call(op, 0, result, NULL,
                                  "DeviceStartCamerasError", AsI32(result), NULL),
                             <<NativeCall("k4a_device_start_cameras", devices[w].handle)>>)
            /\ UNCHANGED devStreaming
       ELSE /\ devStreaming' = [devStreaming EXCEPT ![devices[w].handle] = TRUE]
            /\ ret' = Issued(Call(op, 0, result, NULL, "Ok", 0, NULL),
                             <<NativeCall("k4a_device_start_cameras", devices[w].handle)>>)
  /\ UNCHANGED <<capRef, capFreed, capIssued, capImg, imgRef, imgFreed, imgIssued,
                 devState, devCloseCalls, captures, images, devices,
                 trVars, fmtVars, thVars, stopVars, serialVars, calVars,
                 devConfig, configFrom, bufVars>>

\* Device::start_cameras(&device_config)
Device_start_cameras(w, device_config, result) ==
  StartCameras("Device::start_cameras", w, device_config, result)

\* The configuration of start_cameras_default_config with depth_mode left as
\* DeviceConfiguration::new() sets it.
default_device_config_depth_kept ==
  [DeviceConfiguration_new EXCEPT
     !.color_format = K4A_IMAGE_FORMAT_COLOR_BGRA32,
     !.color_resolution = K4A_COLOR_RESOLUTION_2160P,
     !.camera_fps = K4A_FRAMES_PER_SECOND_30]

\* let mut device_config = DeviceConfiguration::new(); and the four assignments
default_device_config ==
  [DeviceConfiguration_new EXCEPT
     !.color_format = K4A_IMAGE_FORMAT_COLOR_BGRA32,
     !.color_resolution = K4A_COLOR_RESOLUTION_2160P,
     !.depth_mode = K4A_DEPTH_MODE_NFOV_UNBINNED,
     !.camera_fps = K4A_FRAMES_PER_SECOND_30]

\* Device::start_cameras_default_config: self.start_cameras(&device_config)
Device_start_cameras_default_config(w, result) ==
  StartCameras("Device::start_cameras_default_config", w, default_device_config, result)

\* SynchronizationJackStatus { sync_in_jack_connected, sync_out_jack_connected }
SynchronizationJackStatus(in, out) ==
  [sync_in_jack_connected |-> in, sync_out_jack_connected |-> out]

\* A get_synchronization_jack_status that returns the booleans whatever the
\* result is.
Device_get_synchronization_jack_status_unchecked(w, result, jack_in, jack_out) ==
  /\ devices[w].live
  /\ ret' = [Issued(Call("Device::get_synchronization_jack_status", 0, result,
                         SynchronizationJackStatus(jack_in, jack_out), "Ok", 0, NULL),
                    <<NativeCall("k4a_device_get_sync_jack", devices[w].handle)>>)
               EXCEPT !.value = <<SynchronizationJackStatus(jack_in, jack_out)>>]
  /\ UNCHANGED <<nativeVars, wrapperVars, auxVars>>

\* Device::get_synchronization_jack_status: both booleans start as false;
\* k4a_device_get_sync_jack leaves jack_in and jack_out in them.  A result
\* other than K4A_RESULT_SUCCEEDED returns UnableToGetSyncJackStatus.
Device_get_synchronization_jack_status(w, result, jack_in, jack_out) ==
  /\ devices[w].live
  /\ LET sync_in_jack_connected == jack_in
         sync_out_jack_connected == jack_out
         wrote == SynchronizationJackStatus(jack_in, jack_out)
         call == NativeCall("k4a_device_get_sync_jack", devices[w].handle)
     IN  IF result # K4A_RESULT_SUCCEEDED
           THEN ret' = Issued(Call("Device::get_synchronization_jack_status", 0, result,
                                   wrote, "UnableToGetSyncJackStatus", AsI32(result),
                                   NULL),
                              <<call>>)
           ELSE ret' = [Issued(Call("Device::get_synchronization_jack_status", 0,
                                    result, wrote, "Ok", 0, NULL),
                               <<call>>)
                          EXCEPT !.value =
                            <<SynchronizationJackStatus(sync_in_jack_connected,
                                                        sync_out_jack_connected)>>]
  /\ UNCHANGED <<nativeVars, wrapperVars, auxVars>>

\* The thread of get_capture when it is in no call.
GetIdle ==
  [at |-> "idle", device |-> NULL, timeout |-> 0, status |-> 0, wrote |-> NULL,
   by |-> "none"]

\* The native wait ends with a status, for a cause.
Woken(status, wrote, by) ==
  [getPc EXCEPT !.at = "woken", !.status = status, !.wrote = wrote, !.by = by]

\* k4a_device_stop_cameras: "Calling this function while another thread is in
\* that function [k4a_device_get_capture] will result in that function
\* returning a failure."
k4a_device_stop_cameras(h) ==
  /\ devStreaming' = [devStreaming EXCEPT ![h] = FALSE]
  /\ getPc' = IF getPc.at = "blocked" /\ getPc.device = h
                THEN Woken(K4A_WAIT_RESULT_FAILED, NULL, "stop")
                ELSE getPc

\* A stop_cameras that forgets the handle once the cameras are stopped.
Device_stop_cameras_nulling(w) ==
  /\ devices[w].live
  /\ k4a_device_stop_cameras(devices[w].handle)
  /\ devices' = [devices EXCEPT ![w] = Wrapper(NULL)]
  /\ ret' = Issued(Ret("Device::stop_cameras", "unit", 0, NULL),
                    <<NativeCall("k4a_device_stop_cameras", devices[w].handle)>>)
  /\ UNCHANGED <<capRef, capFreed, capIssued, capImg, imgRef, imgFreed, imgIssued,
                 devState, devCloseCalls, captures, images,
                 trVars, fmtVars, thVars, moreVars>>

\* Device::stop_cameras: unconditional, no return value, no lock taken.
Device_stop_cameras(w) ==
  /\ devices[w].live
  /\ k4a_device_stop_cameras(devices[w].handle)
  /\ ret' = Issued(Ret("Device::stop_cameras", "unit", 0, NULL),
                    <<NativeCall("k4a_device_stop_cameras", devices[w].handle)>>)
  /\ UNCHANGED <<capRef, capFreed, capIssued, capImg, imgRef, imgFreed, imgIssued,
                 devState, devCloseCalls, captures, images, devices,
                 trVars, fmtVars, thVars, moreVars>>

\* The statuses k4a_device_get_capture may return: a capture only from a
\* streaming device, a timeout only when the wait is bounded.
WaitResults(h, timeout_ms) ==
  {r \in Statuses :
     /\ r = K4A_WAIT_RESULT_SUCCEEDED =>
          devStreaming[h] /\ CapHandles \ capIssued # {}
     /\ r = K4A_WAIT_RESULT_TIMEOUT => timeout_ms >= 0}

\* The images of a new capture: each slot empty or holding a new image.  The
\* new handles are numbered in the order depth, color, ir.
SlotIndex(slot) ==
  CASE slot = "depth" -> 1
    [] slot = "color" -> 2
    [] slot = "ir" -> 3

NewImages ==
  {f \in [ImageSlots -> (ImgHandles \ imgIssued) \cup {NULL}] :
     LET used == {f[s] : s \in ImageSlots} \ {NULL}
     IN  /\ \A h \in used : \A g \in ImgHandles \ imgIssued : g < h => g \in used
         /\ \A s, t \in ImageSlots :
              (f[s] # NULL /\ f[t] # NULL /\ SlotIndex(s) < SlotIndex(t)) => f[s] < f[t]}

\* A match on the wait result that reports a failed wait as a timeout.
get_capture_buffered_failed_as_timeout(result) ==
  CASE result = K4A_WAIT_RESULT_SUCCEEDED -> [kind |-> "Ok", code |-> 0]
    [] result = K4A_WAIT_RESULT_TIMEOUT -> [kind |-> "TimeoutError", code |-> 0]
    [] result = K4A_WAIT_RESULT_FAILED -> [kind |-> "TimeoutError", code |-> 0]
    [] OTHER -> [kind |-> "UnexpectedError", code |-> AsI32(result)]

\* A match on the wait result that reports a timeout as a failure.
get_capture_buffered_timeout_as_failed(result) ==
  CASE result = K4A_WAIT_RESULT_SUCCEEDED -> [kind |-> "Ok", code |-> 0]
    [] result = K4A_WAIT_RESULT_TIMEOUT -> [kind |-> "FailedError", code |-> 0]
    [] result = K4A_WAIT_RESULT_FAILED -> [kind |-> "FailedError", code |-> 0]
    [] OTHER -> [kind |-> "UnexpectedError", code |-> AsI32(result)]

\* Device::get_capture_buffered (device.rs): the match on the wait result.
\* TimeoutError is built without its timeout_millis field: timeout_ms does not
\* reach the error, which carries nothing (0), as FailedError does.
get_capture_buffered(result) ==
  CASE result = K4A_WAIT_RESULT_SUCCEEDED -> [kind |-> "Ok", code |-> 0]
    [] result = K4A_WAIT_RESULT_TIMEOUT -> [kind |-> "TimeoutError", code |-> 0]
    [] result = K4A_WAIT_RESULT_FAILED -> [kind |-> "FailedError", code |-> 0]
    [] OTHER -> [kind |-> "UnexpectedError", code |-> AsI32(result)]

\* Device::get_capture_buffered (lib.rs)
Lib_get_capture_buffered(result) ==
  CASE result = K4A_WAIT_RESULT_SUCCEEDED -> [kind |-> "Ok", code |-> 0]
    [] result = K4A_WAIT_RESULT_TIMEOUT -> [kind |-> "TimeoutError", code |-> 0]
    [] result = K4A_WAIT_RESULT_FAILED -> [kind |-> "TimeoutError", code |-> 0]
    [] OTHER -> [kind |-> "UnknownError", code |-> result]

\* The body of Device::get_capture_buffered on the buffer the caller reuses,
\* for the operation op that runs it with the match outcome:
\* k4a_device_get_capture writes the handle of the new capture over whatever
\* the buffer held; nothing is released.  What a call that delivers no
\* capture leaves in the buffer is up to the native layer: the old handle or
\* NULL.
GetCaptureBuffered(op, w, timeout_ms, result, outcome) ==
  /\ devices[w].live
  /\ result \in WaitResults(devices[w].handle, timeout_ms)
  /\ IF result = K4A_WAIT_RESULT_SUCCEEDED
       THEN \E f \in NewImages :
              LET delivered == Fresh(CapHandles, capIssued)
                  imgs == {f[s] : s \in ImageSlots} \ {NULL}
              IN  /\ capRef' = [capRef EXCEPT ![delivered] = 1]
                  /\ capIssued' = capIssued \cup {delivered}
                  /\ capImg' = [capImg EXCEPT ![delivered] = f]
                  /\ imgRef' = [h \in ImgHandles |->
                                  IF h \in imgs THEN 1 ELSE imgRef[h]]
                  /\ imgIssued' = imgIssued \cup imgs
                  /\ captureBuffer' = delivered
                  /\ ret' = Issued(Call(op, captureBuffer, result, delivered,
                                        outcome.kind, outcome.code, NULL),
                                   <<NativeCall("k4a_device_get_capture",
                                                devices[w].handle)>>)
       ELSE /\ captureBuffer' \in {captureBuffer, NULL}
            /\ ret' = Issued(Call(op, captureBuffer, result, captureBuffer',
                                  outcome.kind, outcome.code, NULL),
                             <<NativeCall("k4a_device_get_capture", devices[w].handle)>>)
            /\ UNCHANGED <<capRef, capIssued, capImg, imgRef, imgIssued>>
  /\ UNCHANGED <<capFreed, imgFreed, devNative, wrapperVars, trVars, fmtVars, thVars,
                 stopVars, serialVars, calVars, configVars>>

\* Device::get_capture_buffered (device.rs) on the caller's buffer
Device_get_capture_buffered(w, timeout_ms, result) ==
  GetCaptureBuffered("Device::get_capture_buffered", w, timeout_ms, result,
                     get_capture_buffered(result))

\* Device::get_capture_buffered (lib.rs) on the caller's buffer
Lib_Device_get_capture_buffered(w, timeout_ms, result) ==
  GetCaptureBuffered("lib::Device::get_capture_buffered", w, timeout_ms, result,
                     Lib_get_capture_buffered(result))

\* unsafe { k4a_sys::k4a_capture_release(capture_buffer) } by the caller, who
\* then clears the buffer.
Release_capture_buffer ==
  /\ captureBuffer # NULL
  /\ \E n \in k4a_capture_release(Native, captureBuffer) : SetNative(n)
  /\ captureBuffer' = NULL
  /\ ret' = Issued(Ret("k4a_capture_release", "unit", 0, captureBuffer),
                    <<NativeCall("k4a_capture_release", captureBuffer)>>)
  /\ UNCHANGED <<capIssued, capImg, imgIssued, devNative, wrapperVars, trVars, fmtVars,
                 thVars, stopVars, serialVars, calVars, configVars>>

\* The native call of get_capture and the wrapping of its buffer:
\* .map(|_| Capture(capture_buffer)) builds a Capture only from Ok.
GetCapture(op, w, cw, timeout_ms, result, outcome) ==
  /\ devices[w].live
  /\ ~captures[cw].live
  /\ result \in WaitResults(devices[w].handle, timeout_ms)
  /\ IF result = K4A_WAIT_RESULT_SUCCEEDED
       THEN \E f \in NewImages :
              LET capture_buffer == Fresh(CapHandles, capIssued)
                  imgs == {f[s] : s \in ImageSlots} \ {NULL}
              IN  /\ capRef' = [capRef EXCEPT ![capture_buffer] = 1]
                  /\ capIssued' = capIssued \cup {capture_buffer}
                  /\ capImg' = [capImg EXCEPT ![capture_buffer] = f]
                  /\ imgRef' = [h \in ImgHandles |->
                                  IF h \in imgs THEN 1 ELSE imgRef[h]]
                  /\ imgIssued' = imgIssued \cup imgs
                  /\ captures' = IF outcome.kind = "Ok"
                                   THEN [captures EXCEPT ![cw] = Wrapper(capture_buffer)]
                                   ELSE captures
                  /\ ret' = Issued(Call(op, timeout_ms, result, capture_buffer,
                                        outcome.kind, outcome.code,
                                        IF outcome.kind = "Ok" THEN capture_buffer
                                        ELSE NULL),
                                   <<NativeCall("k4a_device_get_capture",
                                                devices[w].handle)>>)
       ELSE /\ captures' = IF outcome.kind = "Ok"
                             THEN [captures EXCEPT ![cw] = Wrapper(NULL)]
                             ELSE captures
            /\ ret' = Issued(Call(op, timeout_ms, result, NULL, outcome.kind,
                                  outcome.code, NULL),
                             <<NativeCall("k4a_device_get_capture", devices[w].handle)>>)
            /\ UNCHANGED <<capRef, capIssued, capImg, imgRef, imgIssued>>
  /\ UNCHANGED <<capFreed, imgFreed, devNative, images, devices, auxVars>>

\* A get_capture that wraps the buffer whatever the wait result is.
Device_get_capture_always_wrapping(w, cw, timeout_ms, result) ==
  GetCapture("Device::get_capture", w, cw, timeout_ms, result,
             [kind |-> "Ok", code |-> 0])

\* Device::get_capture (device.rs)
Device_get_capture(w, cw, timeout_ms, result) ==
  GetCapture("Device::get_capture", w, cw, timeout_ms, result,
             get_capture_buffered(result))

\* Device::get_capture (lib.rs)
Lib_Device_get_capture(w, cw, timeout_ms, result) ==
  GetCapture("lib::Device::get_capture", w, cw, timeout_ms, result,
             Lib_get_capture_buffered(result))

(***************************************************************************)
(* Device::get_serial_number (device.rs).                                  *)
(***************************************************************************)
\* The i8 values the native layer may write: the terminator, 'A', the two
\* bytes of U+00E9 (0xC3 0xA9), and 0xFF, which no UTF-8 text contains.
SerialBytes == {0, 65, -61, -87, -1}
SerialLengths == 0..MaxSerialLength
SerialBuffers == UNION {[1..n -> SerialBytes] : n \in SerialLengths}

\* .map(|v| *v as u8)
AsU8(v) == IF v < 0 THEN v + 256 ELSE v
BytesAsU8(buffer) == [i \in 1..Len(buffer) |-> AsU8(buffer[i])]

\* The bytes a UTF-8 sequence starting with byte b has, 0 if none starts with
\* it.  (The narrower ranges of the second byte after 0xE0, 0xED, 0xF0 and
\* 0xF4 are not told apart.)
Utf8Width(b) ==
  CASE b < 128 -> 1
    [] b >= 194 /\ b <= 223 -> 2
    [] b >= 224 /\ b <= 239 -> 3
    [] b >= 240 /\ b <= 244 -> 4
    [] OTHER -> 0

\* String::from_utf8(bytes).is_ok(), checked from position i on.
RECURSIVE ValidUtf8From(_, _)
ValidUtf8From(bytes, i) ==
  IF i > Len(bytes) THEN TRUE
  ELSE LET n == Utf8Width(bytes[i])
       IN  /\ n > 0
           /\ i + n - 1 <= Len(bytes)
           /\ \A j \in (i + 1)..(i + n - 1) : bytes[j] >= 128 /\ bytes[j] <= 191
           /\ ValidUtf8From(bytes, i + n)
ValidUtf8(bytes) == ValidUtf8From(bytes, 1)

\* s.trim_matches(char::from(0)): the zero bytes at either end are removed.
RECURSIVE TrimStart(_)
TrimStart(bytes) ==
  IF bytes # <<>> /\ Head(bytes) = 0 THEN TrimStart(Tail(bytes)) ELSE bytes
RECURSIVE TrimEnd(_)
TrimEnd(bytes) ==
  IF bytes # <<>> /\ bytes[Len(bytes)] = 0
    THEN TrimEnd(SubSeq(bytes, 1, Len(bytes) - 1)) ELSE bytes
trim_matches(bytes) == TrimEnd(TrimStart(bytes))

\* One call of k4a_device_get_serialnum: the destination and the size passed
\* in, the status returned, the size reported and the bytes written.
SerialnumCall(dst, capacity, status, length, wrote) ==
  [dst |-> dst, capacity |-> capacity, status |-> status, length |-> length,
   wrote |-> wrote]

\* A first phase that goes on whatever the status is.
SizeQueryOk_any(result) == TRUE

\* if result != K4A_BUFFER_RESULT_TOO_SMALL { return Err(..) }
SizeQueryOk(result) == result = K4A_BUFFER_RESULT_TOO_SMALL

\* Device::get_serial_number.  size_result and length are what the first
\* native call returns and reports, fill_result and buffer what the second
\* returns and leaves in the buffer of that length.
Device_get_serial_number(w, size_result, length, fill_result, buffer) ==
  /\ devices[w].live
  /\ Len(buffer) = length
  /\ LET first == SerialnumCall("null", 0, size_result, length, <<>>)
         second == SerialnumCall("buffer", length, fill_result, length, buffer)
         serial_number == BytesAsU8(buffer)
         Err(calls, status) ==
           /\ snCalls' = calls
           /\ snValue' = <<>>
           /\ ret' = Issued(Call("Device::get_serial_number", 0, status, NULL,
                                 "UnableToGetSerialNumber", 0, NULL),
                            [i \in 1..Len(calls) |->
                               NativeCall("k4a_device_get_serialnum", devices[w].handle)])
     IN  IF ~SizeQueryOk(size_result)
           THEN Err(<<first>>, size_result)
           ELSE IF fill_result # K4A_BUFFER_RESULT_SUCCEEDED \/ ~ValidUtf8(serial_number)
             THEN Err(<<first, second>>, fill_result)
             ELSE /\ snCalls' = <<first, second>>
                  /\ snValue' = trim_matches(serial_number)
                  /\ ret' = Issued(Call("Device::get_serial_number", 0, fill_result,
                                        NULL, "Ok", 0, NULL),
                                   <<NativeCall("k4a_device_get_serialnum",
                                                devices[w].handle),
                                     NativeCall("k4a_device_get_serialnum",
                                                devices[w].handle)>>)
  /\ UNCHANGED <<nativeVars, wrapperVars, trVars, fmtVars, thVars, stopVars, calVars,
                 configVars, bufVars>>

(***************************************************************************)
(* Device::get_calibration (device.rs).                                    *)
(***************************************************************************)
\* k4a_depth_mode_t: OFF .. PASSIVE_IR; k4a_color_resolution_t: OFF .. 3072P.
DepthModes == 0..5
ColorResolutions == 0..6

\* calibration_buffer: MaybeUninit::uninit() is initialized only by a native
\* call that succeeds; read is whether assume_init() was reached.
CalibrationCall(depth_mode, color_resolution, init, read) ==
  [depth_mode |-> depth_mode, color_resolution |-> color_resolution,
   init |-> init, read |-> read]
NoCalibrationCall == CalibrationCall(0, 0, FALSE, FALSE)

\* A match on the result in which FAILED falls through like SUCCEEDED.
get_calibration_match_failed_continues(result) ==
  CASE result = K4A_RESULT_SUCCEEDED -> [kind |-> "Ok", code |-> 0]
    [] result = K4A_RESULT_FAILED -> [kind |-> "Ok", code |-> 0]
    [] OTHER -> [kind |-> "UnexpectedError", code |-> AsI32(result)]

\* match result { SUCCEEDED => continue, FAILED => FailedError, _ => UnexpectedError }
get_calibration_match(result) ==
  CASE result = K4A_RESULT_SUCCEEDED -> [kind |-> "Ok", code |-> 0]
    [] result = K4A_RESULT_FAILED -> [kind |-> "FailedError", code |-> 0]
    [] OTHER -> [kind |-> "UnexpectedError", code |-> AsI32(result)]

\* Device::get_calibration.  written is what a successful native call leaves
\* in the buffer; garbage is what a read of the buffer yields when the native
\* call did not fill it (assume_init() on uninitialized storage).
Device_get_calibration(w, depth_mode, color_resolution, result, written, garbage) ==
  /\ devices[w].live
  /\ LET init == result = K4A_RESULT_SUCCEEDED
         outcome == get_calibration_match(result)
         read == outcome.kind = "Ok"
     IN  /\ calCall' = CalibrationCall(depth_mode, color_resolution, init, read)
         /\ calReturned' = IF read THEN <<IF init THEN written ELSE garbage>> ELSE <<>>
         /\ ret' = Issued(Call("Device::get_calibration", 0, result, NULL,
                               outcome.kind, outcome.code, NULL),
                          <<NativeCall("k4a_device_get_calibration", devices[w].handle)>>)
  /\ UNCHANGED <<nativeVars, wrapperVars, trVars, fmtVars, thVars, stopVars, serialVars,
                 configVars, bufVars>>

(***************************************************************************)
(* Device::get_capture as another thread sees it: the call enters the      *)
(* native wait, the native layer ends the wait with a status, the call     *)
(* returns what get_capture_buffered makes of the status.                  *)
(***************************************************************************)
\* k4a_device_get_capture(self.device_pointer, &mut capture_buffer, timeout_ms)
Get_capture_enter(w, timeout_ms) ==
  /\ getPc.at = "idle"
  /\ devices[w].live
  /\ getPc' = [GetIdle EXCEPT !.at = "blocked", !.device = devices[w].handle,
                              !.timeout = timeout_ms]
  /\ UNCHANGED <<nativeVars, wrapperVars, ret, trVars, fmtVars, thVars, moreVars>>

\* A capture arrives from the streaming device and is written to the buffer.
Native_capture_ready ==
  /\ getPc.at = "blocked"
  /\ devStreaming[getPc.device]
  /\ CapHandles \ capIssued # {}
  /\ \E f \in NewImages :
       LET capture_buffer == Fresh(CapHandles, capIssued)
           imgs == {f[s] : s \in ImageSlots} \ {NULL}
       IN  /\ capRef' = [capRef EXCEPT ![capture_buffer] = 1]
           /\ capIssued' = capIssued \cup {capture_buffer}
           /\ capImg' = [capImg EXCEPT ![capture_buffer] = f]
           /\ imgRef' = [h \in ImgHandles |-> IF h \in imgs THEN 1 ELSE imgRef[h]]
           /\ imgIssued' = imgIssued \cup imgs
           /\ getPc' = Woken(K4A_WAIT_RESULT_SUCCEEDED, capture_buffer, "capture")
  /\ UNCHANGED <<capFreed, imgFreed, devNative, wrapperVars, ret, trVars, fmtVars, thVars, moreVars>>

\* The bounded wait runs out.
Native_timeout ==
  /\ getPc.at = "blocked"
  /\ getPc.timeout >= 0
  /\ getPc' = Woken(K4A_WAIT_RESULT_TIMEOUT, NULL, "timeout")
  /\ UNCHANGED <<nativeVars, wrapperVars, ret, trVars, fmtVars, thVars, moreVars>>

\* The native call fails by itself, or returns a status outside the enum.
Native_failure(result) ==
  /\ getPc.at = "blocked"
  /\ result \notin {K4A_WAIT_RESULT_SUCCEEDED, K4A_WAIT_RESULT_TIMEOUT}
  /\ getPc' = Woken(result, NULL, "failure")
  /\ UNCHANGED <<nativeVars, wrapperVars, ret, trVars, fmtVars, thVars, moreVars>>

\* match result { ... }.map(|_| Capture(capture_buffer))
Get_capture_return ==
  /\ getPc.at = "woken"
  /\ LET result == getPc.status
         outcome == get_capture_buffered(result)
     IN  /\ IF outcome.kind = "Ok"
               THEN \E cw \in FreeSlot(captures) :
                      captures' = [captures EXCEPT ![cw] = Wrapper(getPc.wrote)]
               ELSE UNCHANGED captures
         /\ ret' = Issued(Call("Device::get_capture", getPc.timeout, result,
                               getPc.wrote, outcome.kind, outcome.code,
                               IF outcome.kind = "Ok" THEN getPc.wrote ELSE NULL),
                          <<NativeCall("k4a_device_get_capture", getPc.device)>>)
  /\ getPc' = GetIdle
  /\ UNCHANGED <<nativeVars, images, devices, trVars, fmtVars, thVars, moreVars>>

(***************************************************************************)
(* Captures in two threads (capture.rs: unsafe impl Send for Capture).     *)
(* Every native reference and release is one atomic step; the steps of     *)
(* the two threads interleave freely, the binding takes no lock.           *)
(***************************************************************************)
Threads == 1..MaxThreads
ThSlots == 1..(MaxThreads * MaxThreadWrappers)
\* The thread that owns the wrapper of a slot.
SlotOwner(s) == ((s - 1) \div MaxThreadWrappers) + 1
FirstSlot(t) == (t - 1) * MaxThreadWrappers + 1

ThIdle == [at |-> "idle", self |-> 0, handle |-> NULL]
ThAt(t, at, self, handle) ==
  thPc' = [thPc EXCEPT ![t] = [at |-> at, self |-> self, handle |-> handle]]

\* Capture::clone, first half, with the reference left out.
Thread_clone_noreference(t, src, dst) ==
  /\ thPc[t].at = "idle"
  /\ SlotOwner(src) = t /\ SlotOwner(dst) = t
  /\ thCaptures[src].live
  /\ ~thCaptures[dst].live
  /\ ThAt(t, "clone", dst, thCaptures[src].handle)
  /\ UNCHANGED <<nativeVars, wrapperVars, ret, trVars, fmtVars, stopVars, thCaptures, moreVars>>

\* Capture::clone, first half: k4a_capture_reference(handle).
Thread_clone_reference(t, src, dst) ==
  /\ thPc[t].at = "idle"
  /\ SlotOwner(src) = t /\ SlotOwner(dst) = t
  /\ thCaptures[src].live
  /\ ~thCaptures[dst].live
  /\ \E n \in k4a_capture_reference(Native, thCaptures[src].handle) : SetNative(n)
  /\ ThAt(t, "clone", dst, thCaptures[src].handle)
  /\ UNCHANGED <<capIssued, capImg, imgIssued, devNative, wrapperVars, ret,
                 trVars, fmtVars, stopVars, thCaptures, moreVars>>

\* Capture::clone, second half: Capture(handle).
Thread_clone_return(t) ==
  /\ thPc[t].at = "clone"
  /\ thCaptures' = [thCaptures EXCEPT ![thPc[t].self] = Wrapper(thPc[t].handle)]
  /\ thPc' = [thPc EXCEPT ![t] = ThIdle]
  /\ UNCHANGED <<nativeVars, wrapperVars, ret, trVars, fmtVars, stopVars, moreVars>>

\* Drop for Capture, first half: k4a_capture_release(self.0).
Thread_drop_release(t, w) ==
  /\ thPc[t].at = "idle"
  /\ SlotOwner(w) = t
  /\ thCaptures[w].live
  /\ \E n \in k4a_capture_release(Native, thCaptures[w].handle) : SetNative(n)
  /\ ThAt(t, "drop", w, thCaptures[w].handle)
  /\ UNCHANGED <<capIssued, capImg, imgIssued, devNative, wrapperVars, ret,
                 trVars, fmtVars, stopVars, thCaptures, moreVars>>

\* Drop for Capture, second half: self.0 = null_mut(), the wrapper is gone.
Thread_drop_null(t) ==
  /\ thPc[t].at = "drop"
  /\ thCaptures' = [thCaptures EXCEPT ![thPc[t].self] = NoWrapper]
  /\ thPc' = [thPc EXCEPT ![t] = ThIdle]
  /\ UNCHANGED <<nativeVars, wrapperVars, ret, trVars, fmtVars, stopVars, moreVars>>

\* Capture::clone_from, first step: k4a_capture_reference(handle).
Thread_clone_from_reference(t, self, source) ==
  /\ thPc[t].at = "idle"
  /\ self # source
  /\ SlotOwner(self) = t /\ SlotOwner(source) = t
  /\ thCaptures[self].live /\ thCaptures[source].live
  /\ \E n \in k4a_capture_reference(Native, thCaptures[source].handle) : SetNative(n)
  /\ ThAt(t, "clone_from", self, thCaptures[source].handle)
  /\ UNCHANGED <<capIssued, capImg, imgIssued, devNative, wrapperVars, ret,
                 trVars, fmtVars, stopVars, thCaptures, moreVars>>

\* Capture::clone_from, second step: k4a_capture_release(self.0).
Thread_clone_from_release(t) ==
  /\ thPc[t].at = "clone_from"
  /\ \E n \in k4a_capture_release(Native, thCaptures[thPc[t].self].handle) : SetNative(n)
  /\ ThAt(t, "assign", thPc[t].self, thPc[t].handle)
  /\ UNCHANGED <<capIssued, capImg, imgIssued, devNative, wrapperVars, ret,
                 trVars, fmtVars, stopVars, thCaptures, moreVars>>

\* Capture::clone_from, third step: self.0 = handle.
Thread_clone_from_assign(t) ==
  /\ thPc[t].at = "assign"
  /\ thCaptures' = [thCaptures EXCEPT ![thPc[t].self] = Wrapper(thPc[t].handle)]
  /\ thPc' = [thPc EXCEPT ![t] = ThIdle]
  /\ UNCHANGED <<nativeVars, wrapperVars, ret, trVars, fmtVars, stopVars, moreVars>>

(***************************************************************************)
(* Transformation (transformation.rs; lib.rs holds the same text).         *)
(***************************************************************************)
\* The resolution fields of a k4a_calibration_t: the color and the depth
\* camera block's resolution_width and resolution_height.
Dims == 0..MaxDim
Resolution(w, h) == [width |-> w, height |-> h]
Calibrations ==
  [color_camera_calibration : [resolution_width : Dims, resolution_height : Dims],
   depth_camera_calibration : [resolution_width : Dims, resolution_height : Dims]]

\* Calibration::default(): every field zero.
Calibration_default ==
  [color_camera_calibration |-> [resolution_width |-> 0, resolution_height |-> 0],
   depth_camera_calibration |-> [resolution_width |-> 0, resolution_height |-> 0]]

\* The k4a_calibration_t that Calibration::default() builds, field by field
\* (0.0f32 is written 0): extrinsics, camera_calibration, and the value.
extrinsics == [rotation |-> <<0, 0, 0, 0, 0, 0, 0, 0, 0>>, translation |-> <<0, 0, 0>>]
extrinsics_4 == <<extrinsics, extrinsics, extrinsics, extrinsics>>
extrinsics_4_4 == <<extrinsics_4, extrinsics_4, extrinsics_4, extrinsics_4>>
camera_calibration ==
  [resolution_width |-> 0,
   resolution_height |-> 0,
   metric_radius |-> 0,
   extrinsics |-> extrinsics,
   intrinsics |->
     [type_ |-> 0,
      parameter_count |-> 0,
      parameters |->
        [cx |-> 0, cy |-> 0, fx |-> 0, fy |-> 0, k1 |-> 0, k2 |-> 0, k3 |-> 0,
         k4 |-> 0, k5 |-> 0, k6 |-> 0, codx |-> 0, cody |-> 0, p2 |-> 0, p1 |-> 0,
         metric_radius |-> 0]]]
k4a_calibration_default ==
  [color_camera_calibration |-> camera_calibration,
   depth_camera_calibration |-> camera_calibration,
   color_resolution |-> 0,
   depth_mode |-> 0,
   extrinsics |-> extrinsics_4_4]

\* The resolution fields of a k4a_calibration_t value.
ResolutionsOf(c) ==
  [color_camera_calibration |->
     [resolution_width |-> c.color_camera_calibration.resolution_width,
      resolution_height |-> c.color_camera_calibration.resolution_height],
   depth_camera_calibration |->
     [resolution_width |-> c.depth_camera_calibration.resolution_width,
      resolution_height |-> c.depth_camera_calibration.resolution_height]]

\* let calibration = Calibration::default(): no native call is made.
Call_Calibration_default ==
  /\ calCall' = NoCalibrationCall
  /\ calReturned' = <<ResolutionsOf(k4a_calibration_default)>>
  /\ ret' = [Ret("Calibration::default", "value", 0, NULL)
               EXCEPT !.value = <<k4a_calibration_default>>]
  /\ UNCHANGED <<nativeVars, wrapperVars, trVars, fmtVars, thVars, stopVars, serialVars,
                 configVars, bufVars>>

\* The four accessors of Calibration (calibration.rs).
color_camera_resolution_width(self) == self.color_camera_calibration.resolution_width
color_camera_resolution_height(self) == self.color_camera_calibration.resolution_height
depth_camera_resolution_width(self) == self.depth_camera_calibration.resolution_width
depth_camera_resolution_height(self) == self.depth_camera_calibration.resolution_height

CalibrationAccessors ==
  {"Calibration::color_camera_resolution_width",
   "Calibration::color_camera_resolution_height",
   "Calibration::depth_camera_resolution_width",
   "Calibration::depth_camera_resolution_height"}

\* Accessors in which depth_camera_resolution_width reads the color block.
Calibration_get_depth_width_from_color(self, accessor) ==
  CASE accessor = "Calibration::color_camera_resolution_width" ->
         color_camera_resolution_width(self)
    [] accessor = "Calibration::color_camera_resolution_height" ->
         color_camera_resolution_height(self)
    [] accessor = "Calibration::depth_camera_resolution_width" ->
         color_camera_resolution_width(self)
    [] accessor = "Calibration::depth_camera_resolution_height" ->
         depth_camera_resolution_height(self)

\* The value each accessor returns for the Calibration self.
Calibration_get(self, accessor) ==
  CASE accessor = "Calibration::color_camera_resolution_width" ->
         color_camera_resolution_width(self)
    [] accessor = "Calibration::color_camera_resolution_height" ->
         color_camera_resolution_height(self)
    [] accessor = "Calibration::depth_camera_resolution_width" ->
         depth_camera_resolution_width(self)
    [] accessor = "Calibration::depth_camera_resolution_height" ->
         depth_camera_resolution_height(self)

\* calibration.<accessor>() on the Calibration the caller holds.
Call_Calibration_accessor(accessor) ==
  /\ Len(calReturned) = 1
  /\ ret' = [Ret(accessor, "value", 0, NULL)
               EXCEPT !.value = <<Calibration_get(calReturned[1], accessor)>>]
  /\ UNCHANGED <<nativeVars, wrapperVars, auxVars>>

NoTransformation ==
  [live |-> FALSE, transformation |-> NULL,
   color_resolution |-> Resolution(0, 0), depth_resolution |-> Resolution(0, 0)]

\* A from_calibration that takes color_resolution from the depth camera block.
Transformation_from_calibration_depth_for_color(w, calibration, ok) ==
  /\ ~transformations[w].live
  /\ ok => TrHandles \ trIssued # {}
  /\ LET transformation == IF ok THEN Fresh(TrHandles, trIssued) ELSE NULL
     IN  /\ trIssued' = IF ok THEN trIssued \cup {transformation} ELSE trIssued
         /\ transformations' = [transformations EXCEPT ![w] =
              [live |-> TRUE,
               transformation |-> transformation,
               color_resolution |->
                 Resolution(calibration.depth_camera_calibration.resolution_width,
                            calibration.depth_camera_calibration.resolution_height),
               depth_resolution |->
                 Resolution(calibration.depth_camera_calibration.resolution_width,
                            calibration.depth_camera_calibration.resolution_height)]]
         /\ ret' = Issued(Call("Transformation::from_calibration", 0, 0,
                               transformation, "wrapper", 0, transformation),
                          <<NativeCall("k4a_transformation_create", calibration)>>)
  /\ UNCHANGED <<nativeVars, wrapperVars, trDestroyCalls, fmtVars, thVars, stopVars, moreVars>>

\* Transformation::from_calibration: k4a_transformation_create returns a new
\* handle, or NULL when it fails; the value is stored unchecked.
Transformation_from_calibration(w, calibration, ok) ==
  /\ ~transformations[w].live
  /\ ok => TrHandles \ trIssued # {}
  /\ LET transformation == IF ok THEN Fresh(TrHandles, trIssued) ELSE NULL
     IN  /\ trIssued' = IF ok THEN trIssued \cup {transformation} ELSE trIssued
         /\ transformations' = [transformations EXCEPT ![w] =
              [live |-> TRUE,
               transformation |-> transformation,
               color_resolution |->
                 Resolution(calibration.color_camera_calibration.resolution_width,
                            calibration.color_camera_calibration.resolution_height),
               depth_resolution |->
                 Resolution(calibration.depth_camera_calibration.resolution_width,
                            calibration.depth_camera_calibration.resolution_height)]]
         /\ ret' = Issued(Call("Transformation::from_calibration", 0, 0,
                               transformation, "wrapper", 0, transformation),
                          <<NativeCall("k4a_transformation_create", calibration)>>)
  /\ UNCHANGED <<nativeVars, wrapperVars, trDestroyCalls, fmtVars, thVars, stopVars, moreVars>>

\* #[derive(Clone)] on Transformation: a field-by-field copy, the handle included.
Transformation_clone(src, dst) ==
  /\ transformations[src].live
  /\ ~transformations[dst].live
  /\ transformations' = [transformations EXCEPT ![dst] = transformations[src]]
  /\ ret' = Ret("Transformation::clone", "wrapper", 0, transformations[src].transformation)
  /\ UNCHANGED <<nativeVars, wrapperVars, trIssued, trDestroyCalls, fmtVars, thVars, stopVars, moreVars>>

\* Transformation::get_handle
Transformation_get_handle(w) ==
  /\ transformations[w].live
  /\ ret' = Ret("Transformation::get_handle", "handle", 0, transformations[w].transformation)
  /\ UNCHANGED <<nativeVars, wrapperVars, trVars, fmtVars, thVars, stopVars, moreVars>>

\* impl Drop for Transformation: k4a_transformation_destroy(self.transformation).
Transformation_drop(w) ==
  /\ transformations[w].live
  /\ trDestroyCalls' = Again(trDestroyCalls, transformations[w].transformation)
  /\ transformations' = [transformations EXCEPT ![w] = NoTransformation]
  /\ ret' = Issued(Ret("Transformation::drop", "unit", 0, NULL),
                    <<NativeCall("k4a_transformation_destroy",
                                 transformations[w].transformation)>>)
  /\ UNCHANGED <<nativeVars, wrapperVars, trIssued, fmtVars, thVars, stopVars, moreVars>>

(***************************************************************************)
(* The specifications.                                                     *)
(***************************************************************************)
InitNative ==
  /\ capRef = [h \in CapHandles |-> 0]
  /\ capFreed = [h \in CapHandles |-> 0]
  /\ capIssued = {}
  /\ capImg = [h \in CapHandles |-> [s \in ImageSlots |-> NULL]]
  /\ imgRef = [h \in ImgHandles |-> 0]
  /\ imgFreed = [h \in ImgHandles |-> 0]
  /\ imgIssued = {}
  /\ devState = [h \in DevHandles |-> "unopened"]
  /\ devStreaming = [h \in DevHandles |-> FALSE]
  /\ devCloseCalls = [h \in DevHandles |-> 0]

InitWrappers ==
  /\ captures = [w \in CapWrappers |-> NoWrapper]
  /\ images = [w \in ImgWrappers |-> NoWrapper]
  /\ devices = [w \in DevWrappers |-> NoWrapper]

InitTr ==
  /\ trIssued = {}
  /\ trDestroyCalls = [h \in TrHandles \cup {NULL} |-> 0]
  /\ transformations = [w \in TrWrappers |-> NoTransformation]

\* No conversion under way.
InitFmt ==
  /\ fmtIn = "ColorMjpg"
  /\ codeIn = 0
  /\ fmtEnc = Unset
  /\ fmtBack = Unset
  /\ fmtDec = Unset

\* No capture is held by a thread.
InitTh ==
  /\ thCaptures = [s \in ThSlots |-> NoWrapper]
  /\ thPc = [t \in Threads |-> ThIdle]

\* Nothing was asked of a device but open, start, stop and get_capture.
InitMore ==
  /\ captureBuffer = NULL
  /\ snCalls = <<>>
  /\ snValue = <<>>
  /\ calCall = NoCalibrationCall
  /\ calReturned = <<>>
  /\ devConfig = DeviceConfiguration_new
  /\ configFrom = "new"

\* call is the configuration handed to the last start of the cameras, if any.
InitAuxAfter(call) ==
  /\ InitTr
  /\ InitFmt
  /\ InitTh
  /\ InitMore
  /\ getPc = GetIdle
  /\ startCall = call

InitAux == InitAuxAfter(<<>>)

Init ==
  /\ InitNative
  /\ InitWrappers
  /\ InitAux
  /\ ret = NoRet

\* A device that was opened and whose cameras were started.
InitStreaming ==
  /\ capRef = [h \in CapHandles |-> 0]
  /\ capFreed = [h \in CapHandles |-> 0]
  /\ capIssued = {}
  /\ capImg = [h \in CapHandles |-> [s \in ImageSlots |-> NULL]]
  /\ imgRef = [h \in ImgHandles |-> 0]
  /\ imgFreed = [h \in ImgHandles |-> 0]
  /\ imgIssued = {}
  /\ devState = [h \in DevHandles |-> IF h = 1 THEN "open" ELSE "unopened"]
  /\ devStreaming = [h \in DevHandles |-> h = 1]
  /\ devCloseCalls = [h \in DevHandles |-> 0]
  /\ captures = [w \in CapWrappers |-> NoWrapper]
  /\ images = [w \in ImgWrappers |-> NoWrapper]
  /\ devices = [w \in DevWrappers |-> IF w = 1 THEN Wrapper(1) ELSE NoWrapper]
  /\ InitAuxAfter(<<default_device_config>>)
  /\ ret = NoRet

\* The life cycle of captures and images: the captures of a streaming device
\* and the images created directly, duplicated and dropped in any order.
Next ==
  \/ \E w \in DevWrappers, cw \in FreeSlot(captures), r \in Statuses :
       Device_get_capture(w, cw, 0, r)
  \/ \E w \in CapWrappers : Capture_drop(w)
  \/ \E src \in CapWrappers, dst \in FreeSlot(captures) : Capture_clone(src, dst)
  \/ \E self, source \in CapWrappers : Capture_clone_from(self, source)
  \/ \E w \in CapWrappers, s \in ImageSlots, iw \in FreeSlot(images) :
       Capture_get_image(w, s, iw)
  \/ \E w \in CapWrappers, s \in ImageSlots, iw \in FreeSlot(images) :
       Lib_Capture_get_image(w, s, iw)
  \/ \E iw \in FreeSlot(images), r \in {K4A_RESULT_SUCCEEDED, K4A_RESULT_FAILED} :
       Image_create(iw, "Depth16", r)
  \/ \E w \in ImgWrappers : Image_drop(w)
  \/ \E src \in ImgWrappers, dst \in FreeSlot(images) : Image_clone(src, dst)
  \/ \E self, source \in ImgWrappers : Image_clone_from(self, source)

Spec == InitStreaming /\ [][Next]_vars

\* The device: open, start, stop, fetch captures, close.
NextDev ==
  \/ \E w \in FreeSlot(devices), i \in DeviceIndexes, r \in Statuses : Device_open(w, i, r)
  \/ \E w \in DevWrappers : Device_drop(w)
  \/ \E w \in DevWrappers, r \in Statuses : Device_start_cameras(w, devConfig, r)
  \/ \E w \in DevWrappers : Device_stop_cameras(w)
  \/ \E w \in DevWrappers, cw \in FreeSlot(captures), t \in Timeouts, r \in Statuses :
       Device_get_capture(w, cw, t, r)
  \/ \E w \in DevWrappers, cw \in FreeSlot(captures), t \in Timeouts, r \in Statuses :
       Lib_Device_get_capture(w, cw, t, r)
  \/ \E w \in CapWrappers : Capture_drop(w)

SpecDev == Init /\ [][NextDev]_vars

\* The life cycle of transformations.
NextTr ==
  \/ \E w \in FreeSlot(transformations), c \in Calibrations, ok \in BOOLEAN :
       Transformation_from_calibration(w, c, ok)
  \/ \E src \in TrWrappers, dst \in FreeSlot(transformations) :
       Transformation_clone(src, dst)
  \/ \E w \in TrWrappers : Transformation_get_handle(w)
  \/ \E w \in TrWrappers : Transformation_drop(w)

SpecTr == Init /\ [][NextTr]_vars

\* The ImageFormat conversions, applied to every format and every code.
InitFmtInputs ==
  /\ InitNative
  /\ InitWrappers
  /\ InitTr
  /\ InitTh
  /\ InitMore
  /\ startCall = <<>>
  /\ getPc = GetIdle
  /\ ret = NoRet
  /\ fmtIn \in ImageFormats
  /\ codeIn \in Codes
  /\ fmtEnc = Unset
  /\ fmtBack = Unset
  /\ fmtDec = Unset

NextFmt ==
  \/ Fmt_to_k4a
  \/ Fmt_from_encoded
  \/ Fmt_from_code

SpecFmt == InitFmtInputs /\ [][NextFmt]_vars

\* Two captures fetched by thread 1; a clone of the first was sent to every
\* other thread.  The first capture holds a depth image.
InitThreads ==
  /\ capRef = [h \in CapHandles |-> IF h = 1 THEN MaxThreads ELSE IF h = 2 THEN 1 ELSE 0]
  /\ capFreed = [h \in CapHandles |-> 0]
  /\ capIssued = {1, 2}
  /\ capImg = [h \in CapHandles |->
                 [s \in ImageSlots |-> IF h = 1 /\ s = "depth" THEN 1 ELSE NULL]]
  /\ imgRef = [h \in ImgHandles |-> IF h = 1 THEN 1 ELSE 0]
  /\ imgFreed = [h \in ImgHandles |-> 0]
  /\ imgIssued = {1}
  /\ devState = [h \in DevHandles |-> IF h = 1 THEN "open" ELSE "unopened"]
  /\ devStreaming = [h \in DevHandles |-> h = 1]
  /\ devCloseCalls = [h \in DevHandles |-> 0]
  /\ captures = [w \in CapWrappers |-> NoWrapper]
  /\ images = [w \in ImgWrappers |-> NoWrapper]
  /\ devices = [w \in DevWrappers |-> IF w = 1 THEN Wrapper(1) ELSE NoWrapper]
  /\ InitTr
  /\ InitFmt
  /\ thCaptures = [s \in ThSlots |->
                     IF s = FirstSlot(SlotOwner(s)) THEN Wrapper(1)
                     ELSE IF s = 2 THEN Wrapper(2) ELSE NoWrapper]
  /\ thPc = [t \in Threads |-> ThIdle]
  /\ InitMore
  /\ startCall = <<default_device_config>>
  /\ getPc = GetIdle
  /\ ret = NoRet

NextThreads ==
  \/ \E t \in Threads, src, dst \in ThSlots : Thread_clone_reference(t, src, dst)
  \/ \E t \in Threads : Thread_clone_return(t)
  \/ \E t \in Threads, w \in ThSlots : Thread_drop_release(t, w)
  \/ \E t \in Threads : Thread_drop_null(t)
  \/ \E t \in Threads, self, source \in ThSlots : Thread_clone_from_reference(t, self, source)
  \/ \E t \in Threads : Thread_clone_from_release(t)
  \/ \E t \in Threads : Thread_clone_from_assign(t)

SpecThreads == InitThreads /\ [][NextThreads]_vars

\* The serial number of an open device, for every answer of the native layer.
NextSerial ==
  \E w \in DevWrappers, r1, r2 \in Statuses, buffer \in SerialBuffers :
    Device_get_serial_number(w, r1, Len(buffer), r2, buffer)

SpecSerial == InitStreaming /\ [][NextSerial]_vars

\* The calibration of an open device, for every answer of the native layer.
NextCal ==
  \E w \in DevWrappers, d \in DepthModes, c \in ColorResolutions, r \in Statuses :
    \E written \in IF r = K4A_RESULT_SUCCEEDED THEN Calibrations ELSE {Calibration_default},
       garbage \in IF r = K4A_RESULT_SUCCEEDED THEN {Calibration_default} ELSE Calibrations :
      Device_get_calibration(w, d, c, r, written, garbage)

SpecCal == InitStreaming /\ [][NextCal]_vars

\* Calibrations, read from the device or built by default(), and their
\* accessors.
NextCalibration ==
  \/ \E w \in DevWrappers, r \in Statuses,
          d \in {K4A_DEPTH_MODE_NFOV_UNBINNED, K4A_DEPTH_MODE_WFOV_2X2BINNED} :
       \E written \in IF r = K4A_RESULT_SUCCEEDED THEN Calibrations
                                                  ELSE {Calibration_default} :
         Device_get_calibration(w, d, K4A_COLOR_RESOLUTION_720P, r, written,
                                Calibration_default)
  \/ Call_Calibration_default
  \/ \E accessor \in CalibrationAccessors : Call_Calibration_accessor(accessor)

SpecCalibration == InitStreaming /\ [][NextCalibration]_vars

\* Configurations built, changed and handed to the start of the cameras.
NextConfig ==
  \/ Config_new
  \/ Config_init_disable_all
  \/ \E field \in DOMAIN ConfigFieldValues : \E value \in ConfigFieldValues[field] :
       Config_set(field, value)
  \/ \E w \in DevWrappers, r \in Statuses : Device_start_cameras(w, devConfig, r)
  \/ \E w \in DevWrappers, r \in Statuses : Device_start_cameras_default_config(w, r)
  \/ \E w \in DevWrappers : Device_stop_cameras(w)

SpecConfig == InitStreaming /\ [][NextConfig]_vars

\* A capture with a depth image was fetched from the started device.
InitRaw ==
  /\ capRef = [h \in CapHandles |-> IF h = 1 THEN 1 ELSE 0]
  /\ capFreed = [h \in CapHandles |-> 0]
  /\ capIssued = {1}
  /\ capImg = [h \in CapHandles |->
                 [s \in ImageSlots |-> IF h = 1 /\ s = "depth" THEN 1 ELSE NULL]]
  /\ imgRef = [h \in ImgHandles |-> IF h = 1 THEN 1 ELSE 0]
  /\ imgFreed = [h \in ImgHandles |-> 0]
  /\ imgIssued = {1}
  /\ devState = [h \in DevHandles |-> IF h = 1 THEN "open" ELSE "unopened"]
  /\ devStreaming = [h \in DevHandles |-> h = 1]
  /\ devCloseCalls = [h \in DevHandles |-> 0]
  /\ captures = [w \in CapWrappers |-> IF w = 1 THEN Wrapper(1) ELSE NoWrapper]
  /\ images = [w \in ImgWrappers |-> NoWrapper]
  /\ devices = [w \in DevWrappers |-> IF w = 1 THEN Wrapper(1) ELSE NoWrapper]
  /\ InitAuxAfter(<<default_device_config>>)
  /\ ret = NoRet

\* Captures and images whose raw handles the caller asks for and wraps.
NextRaw ==
  \/ \E w \in CapWrappers : Capture_drop(w)
  \/ \E w \in CapWrappers, s \in ImageSlots, iw \in FreeSlot(images) :
       Capture_get_image(w, s, iw)
  \/ \E w \in ImgWrappers : Image_drop(w)
  \/ \E w \in CapWrappers : Call_Capture_get_handle(w)
  \/ \E w \in ImgWrappers : Call_Image_get_handle(w)
  \/ \E dst \in FreeSlot(captures) : Capture_from_raw(dst)
  \/ \E dst \in FreeSlot(images) : Image_from_raw(dst)

SpecRaw == InitRaw /\ [][NextRaw]_vars

\* Every fallible operation of a device and Image::create, for every status
\* the native layer may answer.  A run ends with the query of the serial
\* number or of the calibration.
Quiet == snCalls = <<>> /\ calCall = NoCalibrationCall

NextOps ==
  \/ /\ Quiet
     /\ \E w \in FreeSlot(devices), i \in DeviceIndexes, r \in Statuses :
          Device_open(w, i, r)
  \/ /\ Quiet
     /\ \E w \in DevWrappers, r \in Statuses : Device_start_cameras(w, devConfig, r)
  \/ /\ Quiet
     /\ \E w \in DevWrappers, cw \in FreeSlot(captures), t \in Timeouts, r \in Statuses :
          Device_get_capture(w, cw, t, r)
  \/ /\ Quiet
     /\ \E w \in DevWrappers, r \in Statuses :
          Device_get_calibration(w, K4A_DEPTH_MODE_NFOV_UNBINNED,
                                 K4A_COLOR_RESOLUTION_720P,
                                 r, Calibration_default, Calibration_default)
  \/ /\ Quiet
     /\ \E w \in DevWrappers, r \in Statuses, jack_in, jack_out \in BOOLEAN :
          Device_get_synchronization_jack_status(w, r, jack_in, jack_out)
  \/ /\ Quiet
     /\ \E w \in DevWrappers, r1, r2 \in Statuses, buffer \in {<<65>>} :
          Device_get_serial_number(w, r1, Len(buffer), r2, buffer)
  \/ /\ Quiet
     /\ \E iw \in FreeSlot(images), f \in {"Depth16", "ColorBgra32"}, r \in Statuses :
          Image_create(iw, f, r)

SpecOps == Init /\ [][NextOps]_vars

\* The operations that take &self, among those that build, duplicate and
\* drop the wrappers they are called on.
NextFrame ==
  \/ /\ Quiet
     /\ \E w \in DevWrappers : Device_drop(w)
  \/ /\ Quiet
     /\ \E w \in DevWrappers, r \in {K4A_RESULT_SUCCEEDED, K4A_RESULT_FAILED} :
          Device_start_cameras(w, default_device_config, r)
  \/ /\ Quiet
     /\ \E w \in DevWrappers : Device_stop_cameras(w)
  \/ /\ Quiet
     /\ \E w \in DevWrappers, cw \in FreeSlot(captures),
             r \in {K4A_WAIT_RESULT_SUCCEEDED, K4A_WAIT_RESULT_TIMEOUT} :
          Device_get_capture(w, cw, 0, r)
  \/ /\ Quiet
     /\ \E w \in DevWrappers :
          Device_get_calibration(w, K4A_DEPTH_MODE_NFOV_UNBINNED,
                                 K4A_COLOR_RESOLUTION_720P, K4A_RESULT_SUCCEEDED,
                                 Calibration_default, Calibration_default)
  \/ /\ Quiet
     /\ \E w \in DevWrappers :
          Device_get_serial_number(w, K4A_BUFFER_RESULT_TOO_SMALL, 1,
                                   K4A_BUFFER_RESULT_SUCCEEDED, <<65>>)
  \/ /\ Quiet
     /\ \E w \in DevWrappers, r \in {K4A_RESULT_SUCCEEDED, K4A_RESULT_FAILED} :
          Device_get_synchronization_jack_status(w, r, TRUE, FALSE)
  \/ /\ Quiet
     /\ \E w \in CapWrappers, s \in ImageSlots, iw \in FreeSlot(images) :
          Capture_get_image(w, s, iw)
  \/ /\ Quiet
     /\ \E w \in CapWrappers : Call_Capture_get_handle(w)
  \/ /\ Quiet
     /\ \E w \in ImgWrappers : Call_Image_get_handle(w)
  \/ /\ Quiet
     /\ \E self, source \in CapWrappers : Capture_clone_from(self, source)
  \/ /\ Quiet
     /\ \E w \in CapWrappers : Capture_drop(w)

SpecFrame == InitStreaming /\ [][NextFrame]_vars

\* clone_from between wrappers of different handles and of the same handle
\* (a clone, or a wrapper built from the raw handle).
NextCloneFrom ==
  \/ \E w \in DevWrappers, cw \in FreeSlot(captures) :
       Device_get_capture(w, cw, 0, K4A_WAIT_RESULT_SUCCEEDED)
  \/ \E src \in CapWrappers, dst \in FreeSlot(captures) : Capture_clone(src, dst)
  \/ \E w \in CapWrappers, s \in ImageSlots, iw \in FreeSlot(images) :
       Capture_get_image(w, s, iw)
  \/ \E w \in CapWrappers : Call_Capture_get_handle(w)
  \/ \E w \in ImgWrappers : Call_Image_get_handle(w)
  \/ \E dst \in FreeSlot(captures) : Capture_from_raw(dst)
  \/ \E dst \in FreeSlot(images) : Image_from_raw(dst)
  \/ \E self, source \in CapWrappers : Capture_clone_from(self, source)
  \/ \E self, source \in ImgWrappers : Image_clone_from(self, source)

SpecCloneFrom == InitRaw /\ [][NextCloneFrom]_vars

\* Images created with the format the caller holds, for every format.
NextCreate ==
  \/ \E iw \in FreeSlot(images), r \in Statuses : Image_create(iw, fmtIn, r)
  \/ \E w \in ImgWrappers : Image_drop(w)
  \/ Fmt_to_k4a

SpecCreate == InitFmtInputs /\ [][NextCreate]_vars

\* Devices, captures and images built by open, get_capture and Image::create
\* for every status of the native call, and dropped.
NextBuild ==
  \/ \E w \in FreeSlot(devices), r \in Statuses : Device_open(w, 0, r)
  \/ \E w \in DevWrappers : Device_start_cameras(w, devConfig, K4A_RESULT_SUCCEEDED)
  \/ \E w \in DevWrappers, cw \in FreeSlot(captures), r \in Statuses :
       Device_get_capture(w, cw, 0, r)
  \/ \E iw \in FreeSlot(images), r \in Statuses : Image_create(iw, "Depth16", r)
  \/ \E w \in DevWrappers : Device_drop(w)
  \/ \E w \in CapWrappers : Capture_drop(w)
  \/ \E w \in ImgWrappers : Image_drop(w)

SpecBuild == Init /\ [][NextBuild]_vars

\* A caller that fetches captures into one buffer and releases what the
\* buffer holds.
NextBuffered ==
  \/ \E w \in DevWrappers, t \in Timeouts, r \in Statuses :
       Device_get_capture_buffered(w, t, r)
  \/ \E w \in DevWrappers, t \in Timeouts, r \in Statuses :
       Lib_Device_get_capture_buffered(w, t, r)
  \/ Release_capture_buffer

SpecBuffered == InitStreaming /\ [][NextBuffered]_vars

\* One thread fetches captures while another starts and stops the cameras.
NextStop ==
  \/ \E w \in DevWrappers, t \in Timeouts : Get_capture_enter(w, t)
  \/ Native_capture_ready
  \/ Native_timeout
  \/ \E r \in Statuses : Native_failure(r)
  \/ Get_capture_return
  \/ \E w \in DevWrappers : Device_stop_cameras(w)
  \/ \E w \in DevWrappers, r \in {K4A_RESULT_SUCCEEDED, K4A_RESULT_FAILED} :
       Device_start_cameras(w, devConfig, r)
  \/ \E w \in CapWrappers : Capture_drop(w)

\* A thread that the native call has woken goes on to return.
SpecStop == InitStreaming /\ [][NextStop]_vars /\ WF_vars(Get_capture_return)

(***************************************************************************)
(* Properties.                                                             *)
(***************************************************************************)
\* The live wrappers that hold a handle.
CapHolders(c) == {w \in CapWrappers : captures[w].live /\ captures[w].handle = c}
ImgHolders(i) == {w \in ImgWrappers : images[w].live /\ images[w].handle = i}
DevHolders(d) == {w \in DevWrappers : devices[w].live /\ devices[w].handle = d}
\* An image is referenced by its own wrappers and, through the capture that
\* contains it, by the wrappers of that capture.
ImgReferenced(i) ==
  \/ ImgHolders(i) # {}
  \/ \E c \in capIssued : i \in ImagesOf(c) /\ CapHolders(c) # {}

\* C1: a capture or image handle's native object is destroyed exactly once,
\* at the drop of the last live wrapper that references it: the object of a
\* handle that was handed out has been destroyed once when no live wrapper
\* references it any more, and not at all while one does.
C1_DestroyedExactlyOnce ==
  /\ \A c \in CapHandles :
       capFreed[c] = IF c \in capIssued /\ CapHolders(c) = {} THEN 1 ELSE 0
  /\ \A i \in ImgHandles :
       imgFreed[i] = IF i \in imgIssued /\ ~ImgReferenced(i) THEN 1 ELSE 0

\* A capture and one of its images were destroyed by the drop of the last
\* wrapper while another capture is held by two wrappers.
C1_Witness ==
  /\ ret.op = "Capture::drop"
  /\ capFreed[1] = 1
  /\ \E i \in ImgHandles : imgFreed[i] = 1
  /\ Cardinality(CapHolders(2)) = 2

\* C2: the native reference count of a handle is at least the number of live
\* wrappers that hold it, so the handle of every live wrapper is alive.
C2_RefcountCoversWrappers ==
  /\ \A c \in CapHandles : capRef[c] >= Cardinality(CapHolders(c))
  /\ \A i \in ImgHandles : imgRef[i] >= Cardinality(ImgHolders(i))
  /\ \A w \in CapWrappers :
       captures[w].live => capRef[captures[w].handle] > 0 /\ capFreed[captures[w].handle] = 0
  /\ \A w \in ImgWrappers :
       images[w].live => imgRef[images[w].handle] > 0 /\ imgFreed[images[w].handle] = 0

\* The only capture handed out had two wrappers, one was dropped, and the
\* other still holds the live handle.
C2_Witness ==
  /\ ret.op = "Capture::drop"
  /\ capIssued = {1}
  /\ Cardinality(CapHolders(1)) = 1
  /\ capRef[1] = 1

TrHolders(t) ==
  {w \in TrWrappers : transformations[w].live /\ transformations[w].transformation = t}

\* C3: a transformation handle is held by at most one live wrapper, and
\* k4a_transformation_destroy is called for it exactly once, when that
\* wrapper is dropped.
C3_SingleOwner ==
  \A t \in TrHandles :
    /\ Cardinality(TrHolders(t)) <= 1
    /\ trDestroyCalls[t] = IF t \in trIssued /\ TrHolders(t) = {} THEN 1 ELSE 0

CodeCarries(code, status) == code = status \/ code = status - I32Max - I32Max - 2

\* C5: get_capture maps SUCCEEDED to a Capture of the handle written, TIMEOUT
\* to the timeout outcome, FAILED to the failed outcome (not the timeout
\* one), and any other status to the unexpected-status outcome with its code.
C5_ThreeOutcomes ==
  ret.op \in {"Device::get_capture", "lib::Device::get_capture"} =>
    /\ ret.status = K4A_WAIT_RESULT_SUCCEEDED =>
         ret.kind = "Ok" /\ ret.handle = ret.wrote /\ CapHolders(ret.wrote) # {}
    /\ ret.status = K4A_WAIT_RESULT_TIMEOUT => ret.kind = "TimeoutError"
    /\ ret.status = K4A_WAIT_RESULT_FAILED => ret.kind = "FailedError"
    /\ ret.status \notin {K4A_WAIT_RESULT_SUCCEEDED, K4A_WAIT_RESULT_TIMEOUT,
                          K4A_WAIT_RESULT_FAILED} =>
         ret.kind \in {"UnexpectedError", "UnknownError"} /\ CodeCarries(ret.code, ret.status)

\* C8: a step of Device::open whose native status is not success returns
\* DeviceOpenError with that status and builds no Device; one whose status is
\* success builds exactly one Device, holding the handle the native call wrote.
C8_OpenStep ==
  ret'.op = "Device::open" =>
    IF ret'.status # K4A_RESULT_SUCCEEDED
      THEN /\ ret'.kind = "DeviceOpenError"
           /\ CodeCarries(ret'.code, ret'.status)
           /\ devices' = devices
      ELSE /\ ret'.kind = "Ok"
           /\ ret'.wrote # NULL
           /\ ret'.handle = ret'.wrote
           /\ \E w \in DevWrappers :
                /\ ~devices[w].live
                /\ devices' = [devices EXCEPT ![w] = Wrapper(ret'.wrote)]
           /\ \A w \in DevWrappers : devices[w].live => devices[w].handle # ret'.wrote

C8_OpenResult == [][C8_OpenStep]_vars

\* Device::open failed with K4A_RESULT_FAILED and no Device exists.
C8_Witness ==
  /\ ret.op = "Device::open"
  /\ ret.kind = "DeviceOpenError"
  /\ ret.code = K4A_RESULT_FAILED
  /\ \A w \in DevWrappers : ~devices[w].live

SlotOps == {SlotOp(s) : s \in ImageSlots}
LibSlotOps == {LibSlotOp(s) : s \in ImageSlots}
\* The slot an accessor is for.
OpSlot(op) == CHOOSE s \in ImageSlots : op \in {SlotOp(s), LibSlotOp(s)}
\* The accessor returned a wrapper of exactly the image in its own slot of the
\* capture it was called on, or nothing when that slot is empty.
SlotResult(absent, present) ==
  /\ ret.wrote = capImg[ret.arg][OpSlot(ret.op)]
  /\ ret.kind = IF ret.wrote = NULL THEN absent ELSE present
  /\ ret.handle = ret.wrote
  /\ ret.wrote # NULL => ImgHolders(ret.wrote) # {}

C10_RoundTrip ==
  /\ fmtBack # Unset => fmtBack = <<fmtIn>>
  /\ (fmtDec # Unset /\ codeIn \notin 0..8) => fmtDec = <<"UnknownFormatError">>

\* Custom16 went through to_k4a and back, and 9 was decoded.
C10_Witness ==
  /\ fmtIn = "Custom16"
  /\ fmtBack # Unset
  /\ codeIn = 9
  /\ fmtDec # Unset

\* get_capture was blocked when stop_cameras was called, and has not returned.
Stopped == getPc.at = "woken" /\ getPc.by = "stop"

ThHolds(c) ==
  {s \in ThSlots :
     /\ thCaptures[s].live
     /\ thCaptures[s].handle = c
     /\ ~\E t \in Threads : thPc[t].self = s /\ thPc[t].at \in {"drop", "assign"}}
ThPending(c) ==
  {t \in Threads : thPc[t].at \in {"clone", "clone_from", "assign"} /\ thPc[t].handle = c}

\* C7: with the wrappers of a capture spread over two threads, the capture
\* (and an image it holds) is destroyed once, at the release of the last
\* reference a wrapper of either thread holds, and not before.
C7_ThreadsDestroyOnce ==
  /\ \A c \in CapHandles :
       capFreed[c] = IF c \in capIssued /\ ThHolds(c) = {} /\ ThPending(c) = {}
                       THEN 1 ELSE 0
  /\ \A i \in imgIssued :
       imgFreed[i] = IF \E c \in CapHandles : capFreed[c] = 0 /\ i \in ImagesOf(c)
                       THEN 0 ELSE 1

\* Both threads are inside the drop of their last wrapper of capture 1.
C7_Witness ==
  /\ \A t \in Threads : thPc[t].at = "drop" /\ thPc[t].handle = 1
  /\ ThHolds(1) = {}
  /\ capFreed[1] = 1
  /\ imgFreed[1] = 1

\* The codes of the image formats in the order MJPEG, NV12, YUY2, BGRA32,
\* Depth16, IR16, Custom8, Custom16, Custom.
NamedFormats ==
  <<"ColorMjpg", "ColorNv12", "ColorYuy2", "ColorBgra32", "Depth16", "Ir16",
    "Custom8", "Custom16", "Custom">>

\* C11: to_k4a gives the k-th named format the code k - 1 (0..8), gives no two
\* of the ten formats the same code, and gives the unknown format a code
\* outside 0..8.
C11_Encoding ==
  fmtEnc # Unset =>
    /\ \A k \in DOMAIN NamedFormats : fmtIn = NamedFormats[k] => fmtEnc[1] = k - 1
    /\ \A g \in ImageFormats \ {fmtIn} : to_k4a(g) # fmtEnc[1]
    /\ fmtIn = "UnknownFormatError" => fmtEnc[1] \notin 0..8

\* The unknown format was encoded.
C11_Witness ==
  /\ fmtIn = "UnknownFormatError"
  /\ fmtEnc # Unset

\* C12: get_serial_number first asks with a null destination; a status other
\* than 'too small' ends it with UnableToGetSerialNumber and no second call;
\* otherwise it asks once more with a buffer of the reported length, and a
\* status other than 'succeeded' or bytes that are no text end it with
\* UnableToGetSerialNumber.
C12_TwoPhases ==
  ret.op = "Device::get_serial_number" =>
    /\ Len(snCalls) >= 1
    /\ snCalls[1].dst = "null"
    /\ IF snCalls[1].status # K4A_BUFFER_RESULT_TOO_SMALL
         THEN Len(snCalls) = 1 /\ ret.kind = "UnableToGetSerialNumber"
         ELSE /\ Len(snCalls) = 2
              /\ snCalls[2].dst = "buffer"
              /\ snCalls[2].capacity = snCalls[1].length
              /\ ret.kind = IF /\ snCalls[2].status = K4A_BUFFER_RESULT_SUCCEEDED
                               /\ ValidUtf8(BytesAsU8(snCalls[2].wrote))
                              THEN "Ok" ELSE "UnableToGetSerialNumber"

\* Both phases went well, and bytes that are no text were refused.
C12_Witness ==
  /\ ret.op = "Device::get_serial_number"
  /\ Len(snCalls) = 2
  /\ snCalls[2].status = K4A_BUFFER_RESULT_SUCCEEDED
  /\ snCalls[2].wrote = <<65, -1>>
  /\ ret.kind = "UnableToGetSerialNumber"

\* C13: the serial number returned is no longer than the length the native
\* layer reported and holds no zero byte, whatever the buffer held.
C13_NoTerminator ==
  (ret.op = "Device::get_serial_number" /\ ret.kind = "Ok") =>
    /\ Len(snValue) <= snCalls[1].length
    /\ \A i \in 1..Len(snValue) : snValue[i] # 0

\* C14: a get_capture that ends in TimeoutError returns the timeout the caller
\* passed inside the error.
C14_TimeoutCarried ==
  (ret.op = "Device::get_capture" /\ ret.kind = "TimeoutError") => ret.code = ret.arg

\* C15: get_capture(0) to which the native layer answers 'timeout' (no frame
\* is pending) returns TimeoutError from that one call and builds no Capture.
C15_PollStep ==
  (ret'.op = "Device::get_capture" /\ ret'.arg = 0
     /\ ret'.status = K4A_WAIT_RESULT_TIMEOUT) =>
    /\ ret'.kind = "TimeoutError"
    /\ ret'.handle = NULL
    /\ captures' = captures
    /\ capIssued' = capIssued
C15_PollTimesOut == [][C15_PollStep]_vars

\* A started device was polled and the poll timed out.
C15_Witness ==
  /\ ret.op = "Device::get_capture"
  /\ ret.arg = 0
  /\ ret.status = K4A_WAIT_RESULT_TIMEOUT
  /\ ret.kind = "TimeoutError"
  /\ \E w \in DevWrappers : devices[w].live /\ devStreaming[devices[w].handle]

\* C16: get_calibration returns a Calibration, read from the buffer, only when
\* the native call succeeded and so filled the buffer; FAILED gives
\* FailedError, another status UnexpectedError with that status, and on both
\* the buffer is not read and nothing is returned.
C16_InitializedOnlyOnSuccess ==
  ret.op = "Device::get_calibration" =>
    /\ calCall.read => calCall.init
    /\ ret.status = K4A_RESULT_SUCCEEDED =>
         ret.kind = "Ok" /\ calCall.read /\ Len(calReturned) = 1
    /\ ret.status = K4A_RESULT_FAILED =>
         ret.kind = "FailedError" /\ ~calCall.read /\ calReturned = <<>>
    /\ ret.status \notin {K4A_RESULT_SUCCEEDED, K4A_RESULT_FAILED} =>
         /\ ret.kind = "UnexpectedError"
         /\ CodeCarries(ret.code, ret.status)
         /\ ~calCall.read
         /\ calReturned = <<>>

\* The native call failed for a depth mode and a color resolution that are on.
C16_Witness ==
  /\ ret.op = "Device::get_calibration"
  /\ ret.status = K4A_RESULT_FAILED
  /\ ret.kind = "FailedError"
  /\ calCall.depth_mode = 2
  /\ calCall.color_resolution = 1

\* C17: a configuration fresh from new() has MJPEG, 720p, WFOV 2x2 binned,
\* frame rate field 0 and every synchronization and timing field zero or
\* false; one fresh from init_disable_all() has color resolution OFF, depth
\* mode OFF, 30 fps and wired-sync standalone; the two and the configuration
\* of start_cameras_default_config are three different values.
C17_Presets ==
  /\ configFrom = "new" =>
       /\ devConfig.color_format = K4A_IMAGE_FORMAT_COLOR_MJPG
       /\ devConfig.color_resolution = K4A_COLOR_RESOLUTION_720P
       /\ devConfig.depth_mode = K4A_DEPTH_MODE_WFOV_2X2BINNED
       /\ devConfig.camera_fps = 0
       /\ devConfig.synchronized_images_only = FALSE
       /\ devConfig.depth_delay_off_color_usec = 0
       /\ devConfig.wired_sync_mode = 0
       /\ devConfig.subordinate_delay_off_master_usec = 0
       /\ devConfig.disable_streaming_indicator = FALSE
       /\ devConfig # DeviceConfiguration_init_disable_all
       /\ devConfig # default_device_config
  /\ configFrom = "init_disable_all" =>
       /\ devConfig.color_resolution = K4A_COLOR_RESOLUTION_OFF
       /\ devConfig.depth_mode = K4A_DEPTH_MODE_OFF
       /\ devConfig.camera_fps = K4A_FRAMES_PER_SECOND_30
       /\ devConfig.wired_sync_mode = K4A_WIRED_SYNC_MODE_STANDALONE
       /\ devConfig # DeviceConfiguration_new
       /\ devConfig # default_device_config

\* A configuration fresh from new() replaced one fresh from init_disable_all()
\* that the cameras were started with.
C17_Witness ==
  /\ configFrom = "new"
  /\ ret.op = "DeviceConfiguration::new"
  /\ startCall = <<DeviceConfiguration_init_disable_all>>

\* What start_cameras returns for a status of the native start call.
StartCamerasReturns(status, kind, code) ==
  IF status = K4A_BUFFER_RESULT_SUCCEEDED
    THEN kind = "Ok"
    ELSE kind = "DeviceStartCamerasError" /\ CodeCarries(code, status)

\* C18: start_cameras_default_config hands the native start call the
\* configuration of new() with color format BGRA32, color resolution 2160p,
\* depth mode NFOV unbinned and frame rate 30 fps, and returns what
\* start_cameras returns for the status of that call.
C18_DefaultStart ==
  ret.op = "Device::start_cameras_default_config" =>
    /\ startCall =
         <<[DeviceConfiguration_new EXCEPT
              !.color_format = K4A_IMAGE_FORMAT_COLOR_BGRA32,
              !.color_resolution = K4A_COLOR_RESOLUTION_2160P,
              !.depth_mode = K4A_DEPTH_MODE_NFOV_UNBINNED,
              !.camera_fps = K4A_FRAMES_PER_SECOND_30]>>
    /\ StartCamerasReturns(ret.status, ret.kind, ret.code)
    /\ ret.status = K4A_BUFFER_RESULT_SUCCEEDED =>
         \E w \in DevWrappers : devices[w].live /\ devStreaming[devices[w].handle]

\* The default start failed on a device whose cameras were stopped, while the
\* caller held another configuration.
C18_Witness ==
  /\ ret.op = "Device::start_cameras_default_config"
  /\ ret.kind = "DeviceStartCamerasError"
  /\ configFrom = "caller"
  /\ \A h \in DevHandles : ~devStreaming[h]

\* C19: an Image::create whose native call reports non-success returns
\* CreateImageError with the result code and builds no Image; one whose native
\* call succeeds returns the one new Image, holding the new handle, whose
\* reference count is 1.
C19_CreateStep ==
  ret'.op = "Image::create" =>
    IF ret'.status # K4A_RESULT_SUCCEEDED
      THEN /\ ret'.kind = "CreateImageError"
           /\ CodeCarries(ret'.code, ret'.status)
           /\ images' = images
           /\ imgRef' = imgRef
           /\ imgIssued' = imgIssued
      ELSE /\ ret'.kind = "Ok"
           /\ ret'.wrote # NULL
           /\ ret'.handle = ret'.wrote
           /\ ret'.wrote \notin imgIssued
           /\ imgRef'[ret'.wrote] = 1
           /\ \E w \in ImgWrappers :
                /\ ~images[w].live
                /\ images' = [images EXCEPT ![w] = Wrapper(ret'.wrote)]
           /\ \A w \in ImgWrappers : images[w].live => images[w].handle # ret'.wrote
C19_CreateResult == [][C19_CreateStep]_vars

\* Image::create failed while another Image, created before, was alive.
C19_Witness ==
  /\ ret.op = "Image::create"
  /\ ret.kind = "CreateImageError"
  /\ ret.code = K4A_RESULT_FAILED
  /\ \E w \in ImgWrappers : images[w].live /\ imgRef[images[w].handle] = 1

\* A call of get_handle changes no reference count and no wrapper, and returns
\* the handle of a live wrapper.
C20_GetHandleStep ==
  /\ ret'.op = "Capture::get_handle" =>
       /\ UNCHANGED <<nativeVars, wrapperVars>>
       /\ \E w \in CapWrappers : captures[w].live /\ captures[w].handle = ret'.handle
  /\ ret'.op = "Image::get_handle" =>
       /\ UNCHANGED <<nativeVars, wrapperVars>>
       /\ \E w \in ImgWrappers : images[w].live /\ images[w].handle = ret'.handle

\* C20: get_handle is borrow-only, and nothing a caller does with what the
\* wrappers expose destroys a handle that a live wrapper still holds.
C20_BorrowOnly ==
  /\ [][C20_GetHandleStep]_vars
  /\ [](/\ \A w \in CapWrappers :
             (captures[w].live /\ captures[w].handle # NULL) =>
               capFreed[captures[w].handle] = 0
        /\ \A w \in ImgWrappers :
             (images[w].live /\ images[w].handle # NULL) =>
               imgFreed[images[w].handle] = 0)


(***************************************************************************)
(* C21: every fallible operation checks the status of its native call.  A  *)
(* native status other than success is returned as a typed error, never as *)
(* a success value (for get_serial_number the status is that of the call   *)
(* that decided the outcome); start_cameras returns                        *)
(* DeviceStartCamerasError and get_synchronization_jack_status returns     *)
(* UnableToGetSyncJackStatus, each carrying the native status, and on      *)
(* success get_synchronization_jack_status returns the two booleans as the *)
(* native call wrote them.                                                 *)
(***************************************************************************)
FallibleOps ==
  {"Device::open", "Device::start_cameras", "Device::get_capture",
   "Device::get_calibration", "Device::get_synchronization_jack_status",
   "Device::get_serial_number", "Image::create"}

C21_StatusChecked ==
  /\ (ret.op \in FallibleOps /\ ret.status # K4A_RESULT_SUCCEEDED) =>
       /\ ret.kind # "Ok"
       /\ ret.handle = NULL
       /\ ret.value = <<>>
  /\ (ret.op = "Device::start_cameras" /\ ret.status # K4A_RESULT_SUCCEEDED) =>
       /\ ret.kind = "DeviceStartCamerasError"
       /\ CodeCarries(ret.code, ret.status)
  /\ ret.op = "Device::get_synchronization_jack_status" =>
       IF ret.status # K4A_RESULT_SUCCEEDED
         THEN /\ ret.kind = "UnableToGetSyncJackStatus"
              /\ CodeCarries(ret.code, ret.status)
         ELSE /\ ret.kind = "Ok"
              /\ ret.value = <<ret.wrote>>

\* The native call wrote both booleans and failed: the error is returned.
C21_Witness ==
  /\ ret.op = "Device::get_synchronization_jack_status"
  /\ ret.status = K4A_RESULT_FAILED
  /\ ret.wrote = SynchronizationJackStatus(TRUE, TRUE)
  /\ ret.kind = "UnableToGetSyncJackStatus"
  /\ ret.code = K4A_RESULT_FAILED

(***************************************************************************)
(* C22: no operation retries.  Each invocation of open, start_cameras,     *)
(* get_capture, get_calibration, get_synchronization_jack_status and       *)
(* Image::create issues its native call exactly once whatever status it    *)
(* returns; get_serial_number issues k4a_device_get_serialnum once when    *)
(* the size query is refused and twice otherwise, never more.              *)
(***************************************************************************)
NativeFnOf(op) ==
  CASE op = "Device::open" -> "k4a_device_open"
    [] op = "Device::start_cameras" -> "k4a_device_start_cameras"
    [] op = "Device::get_capture" -> "k4a_device_get_capture"
    [] op = "Device::get_calibration" -> "k4a_device_get_calibration"
    [] op = "Device::get_synchronization_jack_status" -> "k4a_device_get_sync_jack"
    [] op = "Image::create" -> "k4a_image_create"
    [] op = "Device::get_serial_number" -> "k4a_device_get_serialnum"

C22_NoRetry ==
  /\ ret.op \in FallibleOps \ {"Device::get_serial_number"} =>
       /\ Len(ret.native) = 1
       /\ ret.native[1][1] = NativeFnOf(ret.op)
  /\ ret.op = "Device::get_serial_number" =>
       /\ Len(ret.native) = IF SizeQueryOk(snCalls[1].status) THEN 2 ELSE 1
       /\ Len(ret.native) = Len(snCalls)
       /\ \A i \in 1..Len(ret.native) : ret.native[i][1] = NativeFnOf(ret.op)

\* A failed open did not ask again.
C22_Witness ==
  /\ ret.op = "Device::open"
  /\ ret.status = K4A_RESULT_FAILED
  /\ ret.kind = "DeviceOpenError"
  /\ ret.native = <<NativeCall("k4a_device_open", ret.arg)>>

(***************************************************************************)
(* C23: Calibration::default() builds a value whose numeric fields and     *)
(* dimensions are all zero, so the four resolution accessors return 0 on   *)
(* it; on any Calibration each accessor returns the width or height of its *)
(* own camera block.                                                       *)
(***************************************************************************)
AllZero(values) == \A i \in DOMAIN values : values[i] = 0

CameraAllZero(camera) ==
  /\ camera.resolution_width = 0
  /\ camera.resolution_height = 0
  /\ camera.metric_radius = 0
  /\ AllZero(camera.extrinsics.rotation)
  /\ AllZero(camera.extrinsics.translation)
  /\ camera.intrinsics.type_ = 0
  /\ camera.intrinsics.parameter_count = 0
  /\ AllZero(camera.intrinsics.parameters)

\* The Calibration the caller holds came from default().
FromDefault == calCall = NoCalibrationCall /\ Len(calReturned) = 1

C23_DefaultIsZero ==
  /\ ret.op = "Calibration::default" =>
       LET c == ret.value[1]
       IN  /\ CameraAllZero(c.color_camera_calibration)
           /\ CameraAllZero(c.depth_camera_calibration)
           /\ c.color_resolution = 0
           /\ c.depth_mode = 0
           /\ \A i, j \in 1..4 : /\ AllZero(c.extrinsics[i][j].rotation)
                                 /\ AllZero(c.extrinsics[i][j].translation)
           /\ calReturned = <<ResolutionsOf(c)>>
  /\ ret.op \in CalibrationAccessors =>
       /\ FromDefault => ret.value = <<0>>
       /\ ret.op = "Calibration::color_camera_resolution_width" =>
            ret.value = <<calReturned[1].color_camera_calibration.resolution_width>>
       /\ ret.op = "Calibration::color_camera_resolution_height" =>
            ret.value = <<calReturned[1].color_camera_calibration.resolution_height>>
       /\ ret.op = "Calibration::depth_camera_resolution_width" =>
            ret.value = <<calReturned[1].depth_camera_calibration.resolution_width>>
       /\ ret.op = "Calibration::depth_camera_resolution_height" =>
            ret.value = <<calReturned[1].depth_camera_calibration.resolution_height>>

\* An accessor was called on the value default() built.
C23_Witness ==
  /\ FromDefault
  /\ ret.op = "Calibration::depth_camera_resolution_height"
  /\ ret.value = <<0>>

(***************************************************************************)
(* C24: Transformation::from_calibration stores as color_resolution the    *)
(* width and height of the calibration's color camera block and as         *)
(* depth_resolution those of its depth camera block, read from the very    *)
(* calibration it hands to k4a_transformation_create.                      *)
(***************************************************************************)
C24_FromCalibrationStep ==
  ret'.op = "Transformation::from_calibration" =>
    /\ Len(ret'.native) = 1
    /\ ret'.native[1][1] = "k4a_transformation_create"
    /\ LET calibration == ret'.native[1][2]
       IN  \E w \in TrWrappers :
             /\ ~transformations[w].live
             /\ transformations'[w].live
             /\ transformations'[w].transformation = ret'.wrote
             /\ transformations'[w].color_resolution =
                  Resolution(calibration.color_camera_calibration.resolution_width,
                             calibration.color_camera_calibration.resolution_height)
             /\ transformations'[w].depth_resolution =
                  Resolution(calibration.depth_camera_calibration.resolution_width,
                             calibration.depth_camera_calibration.resolution_height)

C24_ResolutionsRecorded == [][C24_FromCalibrationStep]_vars

\* A transformation built from a calibration whose four dimensions tell the
\* blocks and the axes apart.
C24_Witness ==
  /\ ret.op = "Transformation::from_calibration"
  /\ \E w \in TrWrappers :
       /\ transformations[w].live
       /\ transformations[w].transformation = ret.wrote
       /\ transformations[w].color_resolution = Resolution(1, 0)
       /\ transformations[w].depth_resolution = Resolution(0, 1)

(***************************************************************************)
(* C25: the handle of a wrapper changes only when the wrapper is built,    *)
(* overwritten by clone_from, or dropped.  start_cameras, stop_cameras,    *)
(* get_capture, get_calibration, get_serial_number and                     *)
(* get_synchronization_jack_status leave every Device as it was, the       *)
(* accessors of Capture and Image leave the wrapper they are called on as  *)
(* it was, and a Device holds nothing but its handle (no streaming flag).  *)
(***************************************************************************)
DeviceSelfOps ==
  {"Device::start_cameras", "Device::start_cameras_default_config",
   "Device::stop_cameras", "Device::get_capture", "Device::get_calibration",
   "Device::get_serial_number", "Device::get_synchronization_jack_status"}

C25_FrameStep ==
  /\ ret'.op \in DeviceSelfOps => devices' = devices
  /\ ret'.op \in SlotOps \cup {"Capture::get_handle"} => captures' = captures
  /\ ret'.op = "Image::get_handle" => images' = images
  /\ devices' # devices => ret'.op \in {"Device::open", "Device::drop"}
  /\ captures' # captures =>
       ret'.op \in {"Device::get_capture", "Capture::clone", "Capture::clone_from",
                    "Capture::drop"}
  /\ images' # images =>
       ret'.op \in SlotOps \cup {"Image::create", "Image::clone", "Image::clone_from",
                                 "Image::drop"}
  /\ \A w \in DevWrappers : DOMAIN devices'[w] = {"live", "handle"}

C25_HandleUnchanged == [][C25_FrameStep]_vars

\* The cameras were stopped; the Device still holds the handle it opened.
C25_Witness ==
  /\ ret.op = "Device::stop_cameras"
  /\ devices[1] = Wrapper(1)
  /\ ~devStreaming[1]
  /\ \E w \in CapWrappers : captures[w].live

(***************************************************************************)
(* C26: clone_from on Capture and on Image references the source's handle  *)
(* before it releases the handle self held.  When both are alive, self     *)
(* ends up holding the source's handle; if the handles differ the source's *)
(* count went up by one and the old one's down by one, and if they are the *)
(* same handle the count is what it was and the object was not destroyed   *)
(* on the way, even when that count was 1.                                 *)
(***************************************************************************)
CloneFromEffect(ws, wsAfter, ref, refAfter, freed, freedAfter, reference, release) ==
  \E self, source \in DOMAIN ws :
    /\ self # source
    /\ ws[self].live
    /\ ws[source].live
    /\ LET new == ws[source].handle
           old == ws[self].handle
       IN  /\ ret'.native = <<NativeCall(reference, new), NativeCall(release, old)>>
           /\ wsAfter = [ws EXCEPT ![self] = Wrapper(new)]
           /\ (ref[new] > 0 /\ ref[old] > 0) =>
                IF new = old
                  THEN refAfter = ref /\ freedAfter = freed
                  ELSE /\ refAfter[new] = ref[new] + 1
                       /\ refAfter[old] = ref[old] - 1
                       /\ freedAfter[new] = freed[new]

C26_CloneFromStep ==
  /\ ret'.op = "Capture::clone_from" =>
       CloneFromEffect(captures, captures', capRef, capRef', capFreed, capFreed',
                       "k4a_capture_reference", "k4a_capture_release")
  /\ ret'.op = "Image::clone_from" =>
       CloneFromEffect(images, images', imgRef, imgRef', imgFreed, imgFreed',
                       "k4a_image_reference", "k4a_image_release")

C26_ReferenceBeforeRelease == [][C26_CloneFromStep]_vars

\* clone_from between two wrappers of one handle whose count is 1: the
\* object is alive afterwards.
C26_Witness ==
  /\ ret.op = "Capture::clone_from"
  /\ ret.native[1][2] = ret.native[2][2]
  /\ \E self, source \in CapWrappers :
       /\ self # source
       /\ captures[self] = captures[source]
       /\ captures[self] = Wrapper(ret.handle)
       /\ capRef[ret.handle] = 1
       /\ capFreed[ret.handle] = 0

(***************************************************************************)
(* C27: an Image returned by get_depth_image, get_color_image or           *)
(* get_ir_image owns a native reference of its own.  The count of an image *)
(* of a capture is the number of Image wrappers that hold it, plus one     *)
(* while the capture is alive: k calls give k wrappers and k references,   *)
(* each drop gives one back, and the image is alive as long as an Image    *)
(* wrapper holds it, whether or not the capture is still alive.            *)
(***************************************************************************)
CaptureOf(i) == {c \in CapHandles : \E s \in ImageSlots : capImg[c][s] = i}

C27_ImageOwnsReference ==
  \A i \in imgIssued :
    /\ \A c \in CaptureOf(i) :
         imgRef[i] = Cardinality(ImgHolders(i)) + (IF capRef[c] > 0 THEN 1 ELSE 0)
    /\ ImgHolders(i) # {} => imgRef[i] > 0 /\ imgFreed[i] = 0
    /\ (ImgHolders(i) = {} /\ \A c \in CaptureOf(i) : capRef[c] = 0) =>
         imgRef[i] = 0 /\ imgFreed[i] = 1

\* Two Images of one image of a capture outlive every wrapper of the capture.
C27_Witness ==
  \E i \in imgIssued :
    /\ CaptureOf(i) # {}
    /\ \A c \in CaptureOf(i) : CapHolders(c) = {} /\ capFreed[c] = 1
    /\ Cardinality(ImgHolders(i)) = 2
    /\ imgRef[i] = 2
    /\ imgFreed[i] = 0

(***************************************************************************)
(* C28: for every ImageFormat, UnknownFormatError included, the format     *)
(* code Image::create passes to k4a_image_create is the to_k4a() encoding  *)
(* of that format.                                                         *)
(***************************************************************************)
C28_CreatePassesEncoding ==
  ret.op = "Image::create" =>
    /\ ret.native = <<NativeCall("k4a_image_create", to_k4a(fmtIn))>>
    /\ ret.arg = to_k4a(fmtIn)

(***************************************************************************)
(* C29: on the error paths of Device::open, Device::get_capture and        *)
(* Image::create no wrapper is built.  Every native close or release call  *)
(* is issued by the drop of a wrapper for the handle the native layer gave *)
(* out on a success path, never for a null or unissued handle, and the     *)
(* handles handed out are exactly those held by a wrapper or given back.   *)
(***************************************************************************)
C29_BuildStep ==
  /\ (ret'.op \in {"Device::open", "Device::get_capture", "Image::create"}
        /\ ret'.status # K4A_RESULT_SUCCEEDED) =>
       /\ devices' = devices
       /\ captures' = captures
       /\ images' = images
       /\ Len(ret'.native) = 1
       /\ ret'.native[1][1] = NativeFnOf(ret'.op)
  /\ ret'.op = "Device::drop" =>
       /\ Len(ret'.native) = 1
       /\ ret'.native[1][1] = "k4a_device_close"
       /\ ret'.native[1][2] \in DevHandles
       /\ devState[ret'.native[1][2]] = "open"
  /\ ret'.op = "Capture::drop" =>
       /\ Len(ret'.native) = 1
       /\ ret'.native[1][1] = "k4a_capture_release"
       /\ ret'.native[1][2] \in capIssued
       /\ capRef[ret'.native[1][2]] > 0
  /\ ret'.op = "Image::drop" =>
       /\ Len(ret'.native) = 1
       /\ ret'.native[1][1] = "k4a_image_release"
       /\ ret'.native[1][2] \in imgIssued
       /\ imgRef[ret'.native[1][2]] > 0

C29_Accounted ==
  /\ \A h \in DevHandles :
       /\ devCloseCalls[h] = IF devState[h] = "closed" THEN 1 ELSE 0
       /\ Cardinality(DevHolders(h)) = IF devState[h] = "open" THEN 1 ELSE 0
  /\ \A h \in CapHandles :
       Cardinality(CapHolders(h)) + capFreed[h] = IF h \in capIssued THEN 1 ELSE 0
  /\ \A w \in DevWrappers : devices[w].live => devices[w].handle # NULL
  /\ \A w \in CapWrappers : captures[w].live => captures[w].handle # NULL
  /\ \A w \in ImgWrappers : images[w].live => images[w].handle # NULL

C29_NoWrapperOnError == [][C29_BuildStep]_vars /\ []C29_Accounted

\* Image::create failed after a capture was fetched and dropped: no Image
\* exists and no image handle was ever handed out or released.
C29_Witness ==
  /\ ret.op = "Image::create"
  /\ ret.status = K4A_RESULT_FAILED
  /\ \A w \in ImgWrappers : ~images[w].live
  /\ imgIssued = {}
  /\ capFreed[1] = 1

(***************************************************************************)
(* C30: after any number of successful get_capture_buffered calls on one   *)
(* buffer and a release of the handle left in it, every capture the native *)
(* layer delivered has been released; get_capture_buffered issues no       *)
(* release of its own.                                                     *)
(***************************************************************************)
BufferedOps == {"Device::get_capture_buffered", "lib::Device::get_capture_buffered"}

C30_NoLeakOnReuse ==
  /\ ret.op \in BufferedOps =>
       ret.native = <<NativeCall("k4a_device_get_capture", 1)>>
  /\ (ret.op = "k4a_capture_release" /\ captureBuffer = NULL) =>
       \A h \in capIssued : capRef[h] = 0
=============================================================================
